---- MODULE Spec2Model ----
(***************************************************************************)
(* A model of the phishing detector's orchestration core:                  *)
(*   modules/robust_phishing_detector.py  (RobustPhishingDetector)         *)
(*   modules/company_database.py          (CompanyDatabase)                *)
(*                                                                         *)
(* Python strings that the code inspects character by character (URLs,     *)
(* websites, domains) are sequences of one-character strings.  Strings the *)
(* code only copies (messages, company names) are TLA+ strings.  Python    *)
(* floats are exact rationals: a weight is a numerator over the            *)
(* denominator held beside it, so rounding error is not modelled.          *)
(* Time is counted in units of five seconds.                               *)
(***************************************************************************)
EXTENDS Integers, Sequences, FiniteSets, TLC

VARIABLES
    \* ---- CompanyDatabase (one instance, shared with the loader thread)
    whitelist_domains,    \* self.whitelist_domains: set of normalized domains
    company_lookup,       \* self.company_lookup: normalized domain -> info
    is_loaded,            \* self.is_loaded
    loading_in_progress,  \* self.loading_in_progress
    loader,               \* the ingestion threads: thread -> [pc, line, unlinked]
    corpus,               \* the dataset file: [status, lines]
    reloader,             \* the threads calling force_reload: caller -> pc
    lookup_result,        \* what the last direct is_domain_whitelisted call returned
    cache,                \* the SQLite file at self.cache_db_path: [file, newer, rows]
    \* ---- RobustPhishingDetector
    visual_analyzer,      \* self.visual_analyzer is not None
    \* ---- one analyze_url / analyze_url_with_visual call
    pc,                   \* where the calling thread is
    entry,                \* which of the two methods was called
    input,                \* the argument the caller passed
    url,                  \* the local `url` (validated_url once validated)
    cur,                  \* index in CallOrder of the source being called
    worker,               \* the executor's worker thread of the current call
    waited,               \* time the caller has been blocked in this call
    invoked,              \* sources submitted so far, in order
    returned,             \* what each source's worker returned or raised
    local_results,        \* the locals domain_result, content_result, ...
    store_queries,        \* calls of is_domain_whitelisted in this request
    response,             \* the dict the method returned
    raised,               \* an exception escaped the method
    \* ---- one DomainAnalyzer.analyze_domain call
    analyzed_domain,      \* the local `domain`, parsed_url.netloc
    results,              \* the local `results`: score and explanations
    analyzer_pc           \* which detector analyze_domain runs next

vars == <<whitelist_domains, company_lookup, is_loaded, loading_in_progress,
          loader, corpus, reloader, lookup_result, cache, visual_analyzer, pc, entry, input, url, cur, worker, waited,
          invoked, returned, local_results, store_queries, response, raised,
          analyzed_domain, results, analyzer_pc>>

storeVars == <<whitelist_domains, company_lookup, is_loaded,
               loading_in_progress, loader, corpus, reloader, lookup_result,
               cache>>

callVars == <<pc, entry, input, url, cur, worker, waited, invoked, returned,
              local_results, store_queries, response, raised>>

analyzerVars == <<analyzed_domain, results, analyzer_pc>>

-----------------------------------------------------------------------------
(* Python strings as character sequences                                   *)

UpperChars ==
    <<"A","B","C","D","E","F","G","H","I","J","K","L","M",
      "N","O","P","Q","R","S","T","U","V","W","X","Y","Z">>

LowerChars ==
    <<"a","b","c","d","e","f","g","h","i","j","k","l","m",
      "n","o","p","q","r","s","t","u","v","w","x","y","z">>

Whitespace == {" ", "\t", "\n"}

LowerChar(c) ==
    IF \E i \in DOMAIN UpperChars : UpperChars[i] = c
    THEN LowerChars[CHOOSE i \in DOMAIN UpperChars : UpperChars[i] = c]
    ELSE c

\* str.lower()
str_lower(s) == [i \in 1..Len(s) |-> LowerChar(s[i])]

\* str.strip()
str_strip(s) ==
    IF \A i \in 1..Len(s) : s[i] \in Whitespace THEN <<>>
    ELSE LET a == CHOOSE i \in 1..Len(s) :
                     s[i] \notin Whitespace /\ \A j \in 1..(i-1) : s[j] \in Whitespace
             b == CHOOSE i \in 1..Len(s) :
                     s[i] \notin Whitespace /\ \A j \in (i+1)..Len(s) : s[j] \in Whitespace
         IN SubSeq(s, a, b)

\* str.startswith(p)
str_startswith(s, p) == Len(s) >= Len(p) /\ SubSeq(s, 1, Len(p)) = p

\* str.find(p) + 1: the position of the first occurrence of p in s, 0 if none
str_find(s, p) ==
    LET hits == {i \in 1..(Len(s) - Len(p) + 1) : SubSeq(s, i, i + Len(p) - 1) = p}
    IN IF hits = {} THEN 0 ELSE CHOOSE i \in hits : \A j \in hits : i <= j

\* p in s
str_contains(s, p) == str_find(s, p) # 0

\* s.split(p)[0]
split_head(s, p) ==
    IF str_contains(s, p) THEN SubSeq(s, 1, str_find(s, p) - 1) ELSE s

\* s.split(p, 1)[1], for s that contains p
split_tail(s, p) == SubSeq(s, str_find(s, p) + Len(p), Len(s))

\* n copies of the character c
Repeat(c, n) == [i \in 1..n |-> c]

Min(a, b) == IF a <= b THEN a ELSE b
Max(a, b) == IF a >= b THEN a ELSE b

-----------------------------------------------------------------------------
(* Python values passed as the url argument                                *)

PyStr(s) == [t |-> "str", v |-> s]
PyNone == [t |-> "NoneType", v |-> <<>>]
PyInt == [t |-> "int", v |-> <<>>]          \* a non-zero int such as 123
PyArray == [t |-> "ndarray", v |-> <<>>]    \* bool() of it raises ValueError

\* bool(u) raises for an array of several elements
TruthRaises(u) == u.t = "ndarray"

\* bool(u), for the values above
Truthy(u) ==
    CASE u.t = "str" -> Len(u.v) > 0
      [] u.t = "NoneType" -> FALSE
      [] OTHER -> TRUE

-----------------------------------------------------------------------------
(* RobustPhishingDetector._validate_url                                    *)

MaxUrlLen == 2048

HttpScheme == <<"h","t","t","p",":","/","/">>
HttpsScheme == <<"h","t","t","p","s",":","/","/">>

suspicious_patterns ==
    << <<"j","a","v","a","s","c","r","i","p","t",":">>,
       <<"d","a","t","a",":">>,
       <<"f","i","l","e",":">>,
       <<"f","t","p",":">> >>

Invalid(msg) == [valid |-> FALSE, msg |-> msg, url |-> <<>>]

\* A faulty variant: the length is taken before the whitespace is stripped.
_validate_url_buggy_len(u) ==
    IF TruthRaises(u) THEN [exc |-> TRUE, valid |-> FALSE, msg |-> "ValueError", url |-> <<>>]
    ELSE [exc |-> FALSE] @@
      (IF ~Truthy(u) \/ u.t # "str" THEN Invalid("Invalid URL format")
       ELSE LET s == str_strip(u.v) IN
         IF ~(str_startswith(s, HttpScheme) \/ str_startswith(s, HttpsScheme))
            THEN Invalid("URL must start with http:// or https://")
         ELSE IF Len(u.v) > MaxUrlLen
            THEN Invalid("URL is too long (max 2048 characters)")
         ELSE IF \E k \in DOMAIN suspicious_patterns :
                    str_contains(str_lower(s), suspicious_patterns[k])
            THEN Invalid("Unsupported URL scheme")
         ELSE [valid |-> TRUE, msg |-> "", url |-> s])

\* The tuple (is_valid, validated_url); bool(url) is evaluated first and its
\* exception, if any, propagates to the caller (exc = TRUE).
_validate_url(u) ==
    IF TruthRaises(u) THEN [exc |-> TRUE, valid |-> FALSE, msg |-> "ValueError", url |-> <<>>]
    ELSE [exc |-> FALSE] @@
      (IF ~Truthy(u) \/ u.t # "str" THEN Invalid("Invalid URL format")
       ELSE LET s == str_strip(u.v) IN
         IF ~(str_startswith(s, HttpScheme) \/ str_startswith(s, HttpsScheme))
            THEN Invalid("URL must start with http:// or https://")
         ELSE IF Len(s) > MaxUrlLen
            THEN Invalid("URL is too long (max 2048 characters)")
         ELSE IF \E k \in DOMAIN suspicious_patterns :
                    str_contains(str_lower(s), suspicious_patterns[k])
            THEN Invalid("Unsupported URL scheme")
         ELSE [valid |-> TRUE, msg |-> "", url |-> s])

-----------------------------------------------------------------------------
(* CompanyDatabase                                                         *)

domain_prefixes ==
    << <<"w","w","w",".">>, <<"a","p","i",".">>, <<"m","a","i","l",".">>,
       <<"s","u","p","p","o","r","t",".">>, <<"h","e","l","p",".">>,
       <<"b","l","o","g",".">>, <<"s","h","o","p",".">>,
       <<"s","t","o","r","e",".">> >>

SchemeSep == <<":","/","/">>

\* Removes the first prefix of the list that matches, and only that one.
strip_prefix(d) ==
    LET hits == {k \in DOMAIN domain_prefixes : str_startswith(d, domain_prefixes[k])}
    IN IF hits = {} THEN d
       ELSE LET k == CHOOSE k \in hits : \A j \in hits : k <= j
            IN SubSeq(d, Len(domain_prefixes[k]) + 1, Len(d))

_normalize_domain(domain) ==
    IF Len(domain) = 0 THEN <<>>
    ELSE LET d1 == IF str_contains(domain, SchemeSep)
                   THEN split_tail(domain, SchemeSep) ELSE domain
             d2 == split_head(split_head(split_head(d1, <<"/">>), <<"?">>), <<"#">>)
             d3 == str_strip(str_lower(d2))
         IN strip_prefix(d3)

\* The source corpus: one parsed JSON line per element.
\* json: the line is a JSON object, some other JSON value, or no JSON at all;
\* nulls: the fields of the object whose value is null.
Dataset ==
    << [json |-> "object", website |-> <<>>, name |-> "Nosite",
        industry |-> "None", nulls |-> {}],
       [json |-> "object",
        website |-> HttpsScheme \o <<"w","w","w",".","a",".","c","o","/","x">>,
        name |-> "Acme", industry |-> "Retail", nulls |-> {}] >>

\* A line that is no JSON, and one that is a JSON number or array.
InvalidLine ==
    [json |-> "invalid", website |-> <<>>, name |-> "", industry |-> "", nulls |-> {}]

NonObjectLine ==
    [json |-> "nonobject", website |-> <<>>, name |-> "", industry |-> "", nulls |-> {}]

\* A corpus with malformed lines, websites that are blank or normalize to
\* nothing, a record whose name is null, and a website under two of the
\* prefixes.
DatasetMalformed ==
    << InvalidLine,
       Dataset[2],
       NonObjectLine,
       [json |-> "object", website |-> <<"d",".","i","o">>, name |-> "",
        industry |-> "Media", nulls |-> {"name"}],
       [json |-> "object", website |-> <<" ", " ">>, name |-> "Blank",
        industry |-> "None", nulls |-> {}],
       [json |-> "object", website |-> <<"w","w","w",".">>, name |-> "Prefix",
        industry |-> "None", nulls |-> {}],
       [json |-> "object",
        website |-> <<"B","l","o","g",".","C",".","i","o","/","p","?","q","#","f">>,
        name |-> "Cee", industry |-> "Press", nulls |-> {}],
       [json |-> "object",
        website |-> <<"w","w","w",".","m","a","i","l",".","e",".","i","o">>,
        name |-> "Mailer", industry |-> "Email", nulls |-> {}] >>

\* The dataset file as the store finds it.
Corpus(lines) == [status |-> "ok", lines |-> lines]

CorpusMissing == [status |-> "missing", lines |-> <<>>]

CorpusUnreadable == [status |-> "unreadable", lines |-> <<>>]

\* What the loader inserts for a line: the key and the company_lookup entry.
RecordKey(rec) == _normalize_domain(rec.website)

RecordInfo(rec) ==
    [name |-> rec.name, industry |-> rec.industry, website |-> rec.website,
     has_logo |-> FALSE]

\* record has a non-empty website whose normalized domain is non-empty
Ingestible(rec) ==
    /\ Len(rec.website) > 0
    /\ Len(str_strip(rec.website)) > 0
    /\ Len(RecordKey(rec)) > 0

\* json.loads(line) gives a dict, so record.get works
Parses(rec) == rec.json = "object"

\* INSERT OR REPLACE INTO companies raises: the column `name TEXT NOT NULL`
\* gets record.get('name', ''), which is None for a null name.
InsertRaises(rec) == "name" \in rec.nulls

\* The line reaches whitelist_domains.add: every other line is skipped by
\* `continue` in one of the two except clauses or by one of the two ifs.
Inserted(rec) == Parses(rec) /\ Ingestible(rec) /\ ~InsertRaises(rec)

\* The line reaches `processed_count += 1`: it is a JSON object, and its
\* insert, if it has one, does not raise.
Counted(rec) == Parses(rec) /\ (Ingestible(rec) => ~InsertRaises(rec))

\* The records of the corpora, and for each what the loader computes from
\* it on its line: whether it reaches the insert, and under which key.
CorpusRecords ==
    {Dataset[i] : i \in DOMAIN Dataset}
        \cup {DatasetMalformed[i] : i \in DOMAIN DatasetMalformed}

LineOutcome ==
    [rec \in CorpusRecords |->
        [inserted |-> Inserted(rec), key |-> RecordKey(rec),
         counted |-> Counted(rec)]]

\* The cache file.  The code commits every 10000 processed lines and takes a
\* cache for valid above 1000 companies with a website; the corpora of the
\* model have a handful of lines, so both numbers are scaled down, a batch
\* staying larger than the threshold.
BatchSize == 2

CacheMinRows == 1

\* file: "absent", "ok" (an SQLite database with the two tables) or
\*       "corrupt" (a file on which the queries raise);
\* newer: os.path.getmtime(cache) > os.path.getmtime(dataset);
\* rows: the corpus records whose INSERTs are committed.  The records of a
\*       corpus have ids of their own, so each is a row of `companies`
\*       with a website and a row of `whitelist_domains`.
NoCacheFile == [file |-> "absent", newer |-> FALSE, rows |-> {}]

CorruptCache == [file |-> "corrupt", newer |-> TRUE, rows |-> {}]

\* sqlite3.connect creates the file, CREATE TABLE IF NOT EXISTS leaves an
\* existing database and its modification time alone, and an exception is
\* logged and swallowed.
_init_cache_db(k) ==
    IF k.file = "absent" THEN [file |-> "ok", newer |-> TRUE, rows |-> {}] ELSE k

\* A faulty variant of the validity check: the modification times are not
\* compared.
_is_cache_valid_any_age(k, c) ==
    /\ k.file = "ok"
    /\ c.status # "missing"
    /\ Cardinality(k.rows) > CacheMinRows

\* False when the file is absent, when a getmtime or the query raises, when
\* the cache is not newer than the dataset, or when the count is too low.
_is_cache_valid(k, c) ==
    /\ k.file = "ok"
    /\ c.status # "missing"
    /\ k.newer
    /\ Cardinality(k.rows) > CacheMinRows

\* What _load_from_cache assigns to whitelist_domains, and the entries it
\* writes to company_lookup.
CachedDomains(k) == {LineOutcome[rec].key : rec \in k.rows}

CachedLookup(k, lookup) ==
    [d \in DOMAIN lookup \cup CachedDomains(k) |->
        IF d \in CachedDomains(k)
        THEN RecordInfo(CHOOSE rec \in k.rows : LineOutcome[rec].key = d)
        ELSE lookup[d]]

\* processed_count after the first n lines, and the rows the thread has
\* inserted by then in its transaction, which began with the two DELETEs.
ProcessedCount(lines, n) ==
    Cardinality({i \in 1..n : LineOutcome[lines[i]].counted})

InsertedBy(lines, n) ==
    {lines[i] : i \in {j \in 1..n : LineOutcome[lines[j]].inserted}}

\* `if processed_count % 10000 == 0: conn.commit()` on line n
BatchCommitDue(lines, n) ==
    /\ LineOutcome[lines[n]].counted
    /\ ProcessedCount(lines, n) % BatchSize = 0

\* conn.commit() after n lines by a thread.  A thread whose file
\* force_reload has removed commits to the unlinked file, which no later
\* connection sees.
Committed(k, unlinked, lines, n) ==
    IF unlinked THEN k
    ELSE [file |-> "ok", newer |-> TRUE, rows |-> InsertedBy(lines, n)]

\* A faulty variant of is_domain_whitelisted: the membership test is on the
\* normalized domain only, so every URL with a domain is reported as a hit.
is_domain_whitelisted_untested(u, domains, lookup) ==
    LET d == _normalize_domain(u)
        has == d \in DOMAIN lookup
    IN IF d # <<>>
       THEN [hit |-> TRUE,
             company_name |-> IF has THEN lookup[d].name ELSE "Unknown",
             industry |-> IF has THEN lookup[d].industry ELSE "Unknown",
             website |-> IF has THEN lookup[d].website ELSE <<>>]
       ELSE [hit |-> FALSE, company_name |-> "", industry |-> "", website |-> <<>>]

\* is_domain_whitelisted: (hit, company_info).  company_lookup.get(d, {})
\* falls back to 'Unknown' / '' when the entry is not there.
is_domain_whitelisted(u, domains, lookup) ==
    LET d == _normalize_domain(u)
        has == d \in DOMAIN lookup
    IN IF d \in domains
       THEN [hit |-> TRUE,
             company_name |-> IF has THEN lookup[d].name ELSE "Unknown",
             industry |-> IF has THEN lookup[d].industry ELSE "Unknown",
             website |-> IF has THEN lookup[d].website ELSE <<>>]
       ELSE [hit |-> FALSE, company_name |-> "", industry |-> "", website |-> <<>>]

-----------------------------------------------------------------------------
(* DomainAnalyzer: typosquatting, homograph and entropy detectors          *)

\* self.major_brands
major_brands ==
    {<<"g","o","o","g","l","e",".","c","o","m">>,
     <<"f","a","c","e","b","o","o","k",".","c","o","m">>,
     <<"p","a","y","p","a","l",".","c","o","m">>,
     <<"a","m","a","z","o","n",".","c","o","m">>,
     <<"m","i","c","r","o","s","o","f","t",".","c","o","m">>,
     <<"a","p","p","l","e",".","c","o","m">>,
     <<"n","e","t","f","l","i","x",".","c","o","m">>,
     <<"s","p","o","t","i","f","y",".","c","o","m">>,
     <<"i","n","s","t","a","g","r","a","m",".","c","o","m">>,
     <<"t","w","i","t","t","e","r",".","c","o","m">>,
     <<"l","i","n","k","e","d","i","n",".","c","o","m">>,
     <<"e","b","a","y",".","c","o","m">>,
     <<"c","h","a","s","e",".","c","o","m">>,
     <<"b","a","n","k","o","f","a","m","e","r","i","c","a",".","c","o","m">>,
     <<"w","e","l","l","s","-","f","a","r","g","o",".","c","o","m">>}

Digits == <<"0","1","2","3","4","5","6","7","8","9">>

\* The characters of code point at most 127 that occur in hostnames; every
\* other character stands for a code point above 127.
AsciiChars ==
    {LowerChars[i] : i \in DOMAIN LowerChars} \cup {UpperChars[i] : i \in DOMAIN UpperChars}
        \cup {Digits[i] : i \in DOMAIN Digits} \cup {".", "-", ":", "_", "@"}

\* ord(char) > 127
NonAscii(c) == c \notin AsciiChars

\* c.isalpha(): a letter, ASCII or not (the non-ASCII characters of the
\* hostnames are Cyrillic letters)
IsAlpha(c) ==
    \/ \E i \in DOMAIN LowerChars : LowerChars[i] = c \/ UpperChars[i] = c
    \/ NonAscii(c)

\* The length of the common run of a from i and b from j, within a[..ahi]
\* and b[..bhi].
RunLength(a, b, i, j, ahi, bhi) ==
    LET lim == Min(ahi - i, bhi - j) + 1
    IN CHOOSE k \in 0..lim :
          /\ \A t \in 0..(k - 1) : a[i + t] = b[j + t]
          /\ k = lim \/ a[i + k] # b[j + k]

\* SequenceMatcher.find_longest_match(alo, ahi, blo, bhi) without junk: the
\* longest common block of a[alo..ahi] and b[blo..bhi], the one starting
\* earliest in a and then earliest in b; size 0 when there is none.
find_longest_match(a, b, alo, ahi, blo, bhi) ==
    LET starts == {c \in (alo..ahi) \X (blo..bhi) : a[c[1]] = b[c[2]]}
        size(c) == RunLength(a, b, c[1], c[2], ahi, bhi)
    IN IF starts = {} THEN [i |-> alo, j |-> blo, size |-> 0]
       ELSE LET best == CHOOSE c \in starts :
                           \A d \in starts :
                              \/ size(c) > size(d)
                              \/ /\ size(c) = size(d)
                                 /\ \/ c[1] < d[1]
                                    \/ c[1] = d[1] /\ c[2] <= d[2]
            IN [i |-> best[1], j |-> best[2], size |-> size(best)]

\* The sum of the sizes of SequenceMatcher.get_matching_blocks(): the longest
\* block, then the same to its left and to its right.
RECURSIVE MatchingTotal(_, _, _, _, _, _)
MatchingTotal(a, b, alo, ahi, blo, bhi) ==
    IF alo > ahi \/ blo > bhi THEN 0
    ELSE LET m == find_longest_match(a, b, alo, ahi, blo, bhi)
         IN IF m.size = 0 THEN 0
            ELSE m.size
                 + MatchingTotal(a, b, alo, m.i - 1, blo, m.j - 1)
                 + MatchingTotal(a, b, m.i + m.size, ahi, m.j + m.size, bhi)

\* SequenceMatcher(None, a, b).ratio() as the fraction 2 * matches / length;
\* 1.0 for two empty strings
ratio(a, b) ==
    IF Len(a) + Len(b) = 0 THEN [num |-> 1, den |-> 1]
    ELSE [num |-> 2 * MatchingTotal(a, b, 1, Len(a), 1, Len(b)),
          den |-> Len(a) + Len(b)]

\* 0.85 < ratio < 0.995
InSweetSpot(r) == 85 * r.den < 100 * r.num /\ 1000 * r.num < 995 * r.den

\* domain.lower(), without a leading 'www.'
TyposquattingSubject(d) ==
    IF str_startswith(str_lower(d), <<"w","w","w",".">>)
    THEN SubSeq(str_lower(d), 5, Len(d)) ELSE str_lower(d)

\* The brands at which the loop of _detect_typosquatting would flag d.
TyposquattingMatches(d) ==
    {brand_domain \in major_brands :
        /\ InSweetSpot(ratio(TyposquattingSubject(d), brand_domain))
        /\ TyposquattingSubject(d) # brand_domain}

\* results after an explanation of -points has been added
AddNegative(res, points, description, evidence) ==
    [score |-> res.score - points,
     explanations |-> Append(res.explanations,
                             [type |-> "negative", points |-> points,
                              description |-> description, evidence |-> evidence])]

\* A faulty variant of _detect_typosquatting: the leading 'www.' is kept.
_detect_typosquatting_with_www(d, res, brand_domain) ==
    IF /\ InSweetSpot(ratio(str_lower(d), brand_domain))
       /\ str_lower(d) # brand_domain
    THEN AddNegative(res, 15, <<"Possible typosquatting of ", brand_domain>>, brand_domain)
    ELSE res

\* _detect_typosquatting, brand_domain being the brand the loop over the set
\* self.major_brands ends at: the first one it flags, or the last one.
_detect_typosquatting(d, res, brand_domain) ==
    IF brand_domain \in TyposquattingMatches(d)
    THEN AddNegative(res, 15, <<"Possible typosquatting of ", brand_domain>>, brand_domain)
    ELSE res

\* _detect_homograph_attacks: domain.encode('ascii') fails exactly when some
\* character is above 127; the evidence lists the first five of them.
_detect_homograph_attacks(d, res) ==
    LET suspicious_chars == SelectSeq(d, NonAscii)
    IN IF suspicious_chars # <<>>
       THEN AddNegative(res, 18, <<"Possible homograph attack (Unicode characters)">>,
                        SubSeq(suspicious_chars, 1, Min(5, Len(suspicious_chars))))
       ELSE res

\* math.log2(k) in millionths of a bit, k = 1..20
Log2Micro ==
    <<0, 1000000, 1584963, 2000000, 2321928, 2584963, 2807355, 3000000, 3169925, 3321928,
      3459432, 3584963, 3700440, 3807355, 3906891, 4000000, 4087463, 4169925, 4247928, 4321928>>

RECURSIVE SeqSum(_)
SeqSum(q) == IF Len(q) = 0 THEN 0 ELSE q[1] + SeqSum(SubSeq(q, 2, Len(q)))

\* Counter(label)[label[i]]
CountOf(label, i) == Cardinality({k \in DOMAIN label : label[k] = label[i]})

\* length * Shannon entropy of the label, in millionths of a bit:
\* each character of frequency c contributes log2(length) - log2(c)
EntropyTimesLength(label) ==
    SeqSum([i \in DOMAIN label |->
               Log2Micro[Len(label)] - Log2Micro[CountOf(label, i)]])

\* entropy > 3.8
HighEntropy(label) == EntropyTimesLength(label) > 3800000 * Len(label)

\* main_label: the part before the first dot, without a leading 'www'
MainLabel(d) ==
    LET first == split_head(d, <<".">>)
    IN IF str_startswith(first, <<"w","w","w">>)
       THEN SubSeq(first, 4, Len(first)) ELSE first

Vowels == {"a", "e", "i", "o", "u"}

vowel_count(label) ==
    Cardinality({i \in DOMAIN label : LowerChar(label[i]) \in Vowels})

consonant_count(label) ==
    Cardinality({i \in DOMAIN label :
                    IsAlpha(LowerChar(label[i])) /\ LowerChar(label[i]) \notin Vowels})

\* (cv_ratio > 4 or cv_ratio < 0.3) for vowel_count > 0
UnusualRatio(label) ==
    \/ consonant_count(label) > 4 * vowel_count(label)
    \/ 10 * consonant_count(label) < 3 * vowel_count(label)

\* if entropy > 3.8 and length >= 8
EntropySignal(label) == HighEntropy(label) /\ Len(label) >= 8

\* if vowel_count > 0: if (cv_ratio > 4 or cv_ratio < 0.3) and length >= 6
RatioSignal(label) ==
    /\ vowel_count(label) > 0
    /\ UnusualRatio(label)
    /\ Len(label) >= 6

\* _analyze_domain_entropy: nothing for a domain without a dot or a main
\* label shorter than 4; otherwise the entropy check, then the ratio check.
_analyze_domain_entropy(d, res) ==
    IF ~str_contains(d, <<".">>) \/ Len(MainLabel(d)) < 4 THEN res
    ELSE LET label == MainLabel(d)
             r1 == IF EntropySignal(label)
                   THEN AddNegative(res, 12, <<"Highly randomized domain name detected">>,
                                    "Shannon entropy")
                   ELSE res
         IN IF RatioSignal(label)
            THEN AddNegative(r1, 6, <<"Unusual letter distribution in domain">>,
                             "Consonant/vowel ratio")
            ELSE r1

-----------------------------------------------------------------------------
(* RobustPhishingDetector: configuration                                   *)

SecondsPerTick == 5

base_score == 70

\* self.weights, in hundredths
weights == [domain |-> 30, content |-> 35, technical |-> 20, visual |-> 15]

WeightDen == 100

\* self.timeouts, in ticks
timeouts ==
    [domain |-> 15 \div SecondsPerTick, content |-> 30 \div SecondsPerTick,
     technical |-> 20 \div SecondsPerTick, visual |-> 25 \div SecondsPerTick,
     total |-> 75 \div SecondsPerTick]

Sources == {"domain", "content", "technical", "visual"}

\* analyzer_name passed to _safe_analyzer_call, and module_name of the
\* explanations
AnalyzerName == [domain |-> "Domain", content |-> "Content",
                 technical |-> "Technical", visual |-> "Visual"]

ModuleName == [domain |-> "Domain Analysis", content |-> "Content Analysis",
               technical |-> "Technical Analysis", visual |-> "Visual Analysis"]

\* The order in which the method calls _safe_analyzer_call.
CallOrder(m, va) ==
    IF m = "analyze_url_with_visual" /\ va
    THEN <<"domain", "technical", "content", "visual">>
    ELSE <<"domain", "technical", "content">>

\* The keys of the results the method aggregates.
ResultKeys(m) ==
    IF m = "analyze_url_with_visual"
    THEN {"domain", "content", "technical", "visual"}
    ELSE {"domain", "content", "technical"}

-----------------------------------------------------------------------------
(* What a signal source's function can do when it is run                   *)

Exp(type, points, description) ==
    [type |-> type, points |-> points, description |-> <<description>>]

\* Well-formed results of the analyzers, per source.
OkResults ==
    [domain |->
        {[score |-> -45, explanations |->
             <<Exp("negative", 20, "Suspicious TLD"),
               Exp("negative", 25, "IP address used instead of domain name")>>],
         [score |-> 10, explanations |->
             <<Exp("positive", 10, "Established domain")>>]},
     technical |->
        {[score |-> 1000, explanations |-> <<>>],
         [score |-> -20, explanations |->
             <<Exp("negative", 20, "No valid SSL certificate")>>]},
     content |->
        {[score |-> -1000, explanations |->
             <<Exp("negative", 30, "Credential harvesting form")>>],
         [score |-> 0, explanations |->
             <<Exp("neutral", 0, "No suspicious content")>>]},
     visual |->
        {[score |-> 15, explanations |->
             <<Exp("positive", 15, "Logo matches domain")>>],
         [score |-> -30, explanations |->
             <<Exp("negative", 30, "Logo of another brand")>>]}]

\* The analyzers' own failure result, {'error': ...}
ErrDict == [error |-> <<"Invalid URL format">>]

\* Everything a worker can end with: a dict, a value that is no dict, or an
\* exception.
Outcomes(s) ==
    {[kind |-> "dict", value |-> d, exc |-> ""] : d \in OkResults[s] \cup {ErrDict}}
    \cup {[kind |-> "nondict", value |-> ErrDict, exc |-> ""],
          [kind |-> "raise", value |-> ErrDict, exc |-> "MemoryError"],
          [kind |-> "raise", value |-> ErrDict, exc |-> "Exception"]}

\* execute_with_timeout raised the module's TimeoutError
TimedOut == [kind |-> "raise", value |-> ErrDict, exc |-> "TimeoutError"]

\* 'error' in result
HasError(r) == "error" \in DOMAIN r

NeutralExp(description, evidence) ==
    [type |-> "neutral", description |-> description, evidence |-> evidence]

\* A faulty variant: only the timeout is handled, anything else propagates.
_safe_analyzer_call_unguarded(analyzer_name, o) ==
    IF o.kind = "dict" THEN [exc |-> FALSE, value |-> o.value]
    ELSE IF o.kind = "raise" /\ o.exc = "TimeoutError"
    THEN [exc |-> FALSE, value |->
            [error |-> <<analyzer_name, " analysis timed out">>, score |-> 0,
             explanations |-> <<NeutralExp(<<analyzer_name, " analysis timed out">>,
                                           <<"Analysis exceeded limit">>)>>]]
    ELSE [exc |-> TRUE, value |-> ErrDict]

\* _safe_analyzer_call, given what execute_with_timeout returned or raised:
\* the dict the caller gets (exc is FALSE: nothing propagates).
_safe_analyzer_call(analyzer_name, o) ==
    [exc |-> FALSE, value |->
      CASE o.kind = "dict" -> o.value
        [] o.kind = "nondict" ->
             \* ValueError raised inside the try, caught by except Exception
             [error |-> <<analyzer_name, " analysis failed: ",
                          "Invalid result format from ", analyzer_name>>,
              score |-> 0,
              explanations |->
                <<NeutralExp(<<analyzer_name, " analysis encountered an error">>,
                             <<"Error: Invalid result format">>)>>]
        [] o.kind = "raise" /\ o.exc = "TimeoutError" ->
             [error |-> <<analyzer_name, " analysis timed out">>, score |-> 0,
              explanations |->
                <<NeutralExp(<<analyzer_name, " analysis timed out">>,
                             <<"Analysis exceeded limit">>)>>]
        [] o.kind = "raise" /\ o.exc = "MemoryError" ->
             [error |-> <<analyzer_name, " analysis - memory limit exceeded">>,
              score |-> 0,
              explanations |->
                <<NeutralExp(<<analyzer_name, " analysis - resource limit exceeded">>,
                             <<"Content too large or complex for analysis">>)>>]
        [] OTHER ->
             [error |-> <<analyzer_name, " analysis failed: ", o.exc>>,
              score |-> 0,
              explanations |->
                <<NeutralExp(<<analyzer_name, " analysis encountered an error">>,
                             <<"Error: ", o.exc>>)>>]]

-----------------------------------------------------------------------------
(* RobustPhishingDetector: aggregation                                     *)

\* result.get('score', 0) if 'error' not in result else 0
ScoreOf(r) == IF HasError(r) \/ "score" \notin DOMAIN r THEN 0 ELSE r.score

\* x.get('points', 0)
PointsOf(e) == IF "points" \in DOMAIN e THEN e.points ELSE 0

\* result.get('explanations', [])
ExplanationsOf(r) == IF "explanations" \in DOMAIN r THEN r.explanations ELSE <<>>

\* A faulty variant of the sort: an element goes before those of equal
\* points, so ties come out in reverse.
InsertByPoints_unstable(e, sorted) ==
    LET k == Cardinality({i \in DOMAIN sorted : PointsOf(sorted[i]) > PointsOf(e)})
    IN SubSeq(sorted, 1, k) \o <<e>> \o SubSeq(sorted, k + 1, Len(sorted))

\* list.sort(key=points, reverse=True): a stable sort, descending
InsertByPoints(e, sorted) ==
    LET k == Cardinality({i \in DOMAIN sorted : PointsOf(sorted[i]) >= PointsOf(e)})
    IN SubSeq(sorted, 1, k) \o <<e>> \o SubSeq(sorted, k + 1, Len(sorted))

RECURSIVE SortByPoints(_)
SortByPoints(seq) ==
    IF Len(seq) = 0 THEN <<>>
    ELSE InsertByPoints(seq[Len(seq)], SortByPoints(SubSeq(seq, 1, Len(seq) - 1)))

\* The explanations one module contributes, tagged with its module name.
ModuleExplanations(s, r) ==
    IF HasError(r)
    THEN <<[type |-> "neutral", description |-> <<ModuleName[s], " unavailable">>,
            evidence |-> r.error, module |-> ModuleName[s]]>>
    ELSE [i \in DOMAIN ExplanationsOf(r) |->
             ExplanationsOf(r)[i] @@ [module |-> ModuleName[s]]]

RECURSIVE Flatten(_)
Flatten(seqs) ==
    IF Len(seqs) = 0 THEN <<>> ELSE seqs[1] \o Flatten(SubSeq(seqs, 2, Len(seqs)))

OfType(seq, types) == SelectSeq(seq, LAMBDA e : e.type \in types)

\* _combine_explanations_robust / _combine_explanations_with_visual over the
\* modules in `order` (warnings and the summary are not modelled)
CombineExplanations(order, res) ==
    LET all == Flatten([i \in DOMAIN order |-> ModuleExplanations(order[i], res[order[i]])])
    IN [negative_signals |-> SortByPoints(OfType(all, {"negative"})),
        positive_signals |-> SortByPoints(OfType(all, {"positive"})),
        neutral_signals |-> SelectSeq(all, LAMBDA e : e.type \notin {"negative", "positive"})]

_combine_explanations_robust(res) ==
    CombineExplanations(<<"domain", "content", "technical">>, res)

_combine_explanations_with_visual(res) ==
    CombineExplanations(<<"domain", "content", "technical", "visual">>, res)

\* A faulty variant of the confidence: a positive signal counts as strong
\* from 10 points, as a negative one does.
CalculateConfidence_one_threshold(explanations, successful_analyses, total_modules) ==
    LET neg == explanations.negative_signals
        pos == explanations.positive_signals
        strong_negative == Cardinality({i \in DOMAIN neg : PointsOf(neg[i]) >= 10})
        strong_positive == Cardinality({i \in DOMAIN pos : PointsOf(pos[i]) >= 10})
        signal_confidence == Min(30, (strong_negative + strong_positive) * 8)
        count_confidence == Min(10, (Len(neg) + Len(pos)) * 2)
    IN Min(100, ((successful_analyses * 60) \div total_modules)
                + signal_confidence + count_confidence)

\* _calculate_confidence_robust / _calculate_confidence_with_visual:
\* int((successful / total_modules) * 60 + signal + count), capped at 100
CalculateConfidence(explanations, successful_analyses, total_modules) ==
    LET neg == explanations.negative_signals
        pos == explanations.positive_signals
        strong_negative == Cardinality({i \in DOMAIN neg : PointsOf(neg[i]) >= 10})
        strong_positive == Cardinality({i \in DOMAIN pos : PointsOf(pos[i]) >= 8})
        signal_confidence == Min(30, (strong_negative + strong_positive) * 8)
        count_confidence == Min(10, (Len(neg) + Len(pos)) * 2)
    IN Min(100, ((successful_analyses * 60) \div total_modules)
                + signal_confidence + count_confidence)

_calculate_confidence_robust(explanations, successful_analyses) ==
    CalculateConfidence(explanations, successful_analyses, 3)

_calculate_confidence_with_visual(explanations, successful_analyses, total_modules) ==
    CalculateConfidence(explanations, successful_analyses, total_modules)

\* A faulty variant: the score is rounded to the nearest integer first.
_determine_risk_level_rounded(n, d) ==
    LET r == (2 * n + d) \div (2 * d)
    IN IF r >= 70 THEN "LOW"
       ELSE IF r >= 40 THEN "MEDIUM"
       ELSE IF r >= 20 THEN "HIGH"
       ELSE "CRITICAL"

\* _determine_risk_level of the score n/d (d > 0), not yet truncated
_determine_risk_level(n, d) ==
    IF n >= 70 * d THEN "LOW"
    ELSE IF n >= 40 * d THEN "MEDIUM"
    ELSE IF n >= 20 * d THEN "HIGH"
    ELSE "CRITICAL"

\* A faulty variant: the upper clamp is missing.
ClampScore_no_upper(n, d) == IF n <= 0 THEN [n |-> 0, d |-> 1] ELSE [n |-> n, d |-> d]

\* max(0, min(100, n/d)) as a rational
ClampScore(n, d) ==
    IF n <= 0 THEN [n |-> 0, d |-> 1]
    ELSE IF n >= 100 * d THEN [n |-> 100, d |-> 1]
    ELSE [n |-> n, d |-> d]

\* int(x) of a non-negative rational
IntOf(q) == q.n \div q.d

\* int(base_score + score) if the module succeeded, else the marker
ComponentScore(r, marker) ==
    IF HasError(r) THEN [error |-> marker] ELSE [value |-> base_score + ScoreOf(r)]

\* The adjusted weights of _combine_analysis_results_robust: the numerators
\* over the denominator den.
AdjustedWeightsRobust(res) ==
    LET d == ~HasError(res["domain"])
        c == ~HasError(res["content"])
        t == ~HasError(res["technical"])
    IN IF d \/ c \/ t
       THEN IF d /\ t /\ ~c
            THEN [den |-> 10, num |-> [domain |-> 6, content |-> 0, technical |-> 4]]
            ELSE IF d /\ ~t /\ ~c
            THEN [den |-> 10, num |-> [domain |-> 10, content |-> 0, technical |-> 0]]
            ELSE IF ~d /\ c /\ t
            THEN [den |-> 10, num |-> [domain |-> 0, content |-> 6, technical |-> 4]]
            ELSE [den |-> WeightDen, num |-> weights]
       ELSE [den |-> 1, num |-> [domain |-> 0, content |-> 0, technical |-> 0]]

\* The adjusted weights of _combine_analysis_results_with_visual.
AdjustedWeightsVisual(res, va) ==
    LET failed == {s \in {"domain", "content", "technical"} : HasError(res[s])}
                  \cup (IF HasError(res["visual"]) \/ ~va THEN {"visual"} ELSE {})
        successful == Cardinality({s \in {"domain", "content", "technical"} : ~HasError(res[s])})
                      + (IF ~HasError(res["visual"]) /\ va THEN 1 ELSE 0)
        zeroed == [s \in Sources |-> IF s \in failed THEN 0 ELSE weights[s]]
        total_weight == zeroed["domain"] + zeroed["content"]
                        + zeroed["technical"] + zeroed["visual"]
    IN IF successful > 0 /\ total_weight > 0
       THEN [den |-> total_weight, num |-> zeroed]
       ELSE [den |-> 1, num |-> [s \in Sources |-> 0]]

_combine_analysis_results_robust(u, res) ==
    LET keys == {"domain", "content", "technical"}
        successful_analyses == Cardinality({s \in keys : ~HasError(res[s])})
        adjusted_weights == AdjustedWeightsRobust(res)
        weighted_n == ScoreOf(res["domain"]) * adjusted_weights.num["domain"]
                      + ScoreOf(res["content"]) * adjusted_weights.num["content"]
                      + ScoreOf(res["technical"]) * adjusted_weights.num["technical"]
        trust_score == ClampScore(base_score * adjusted_weights.den + weighted_n,
                                  adjusted_weights.den)
        all_explanations == _combine_explanations_robust(res)
    IN [url |-> PyStr(u),
        trust_score |-> IntOf(trust_score),
        risk_level |-> _determine_risk_level(trust_score.n, trust_score.d),
        confidence |-> _calculate_confidence_robust(all_explanations, successful_analyses),
        explanations |-> all_explanations,
        component_scores |-> [s \in keys |-> ComponentScore(res[s], "Error")],
        weights_used |-> adjusted_weights,
        analysis_status |-> [successful_modules |-> successful_analyses,
                             total_modules |-> 3,
                             partial_analysis |-> successful_analyses < 3]]

_combine_analysis_results_with_visual(u, res, va) ==
    LET keys == {"domain", "content", "technical"}
        visual_ok == ~HasError(res["visual"]) /\ va
        successful_analyses == Cardinality({s \in keys : ~HasError(res[s])})
                               + (IF visual_ok THEN 1 ELSE 0)
        adjusted_weights == AdjustedWeightsVisual(res, va)
        weighted_n == ScoreOf(res["domain"]) * adjusted_weights.num["domain"]
                      + ScoreOf(res["content"]) * adjusted_weights.num["content"]
                      + ScoreOf(res["technical"]) * adjusted_weights.num["technical"]
                      + ScoreOf(res["visual"]) * adjusted_weights.num["visual"]
        trust_score == ClampScore(base_score * adjusted_weights.den + weighted_n,
                                  adjusted_weights.den)
        all_explanations == _combine_explanations_with_visual(res)
        total_modules == IF va THEN 4 ELSE 3
    IN [url |-> PyStr(u),
        trust_score |-> IntOf(trust_score),
        risk_level |-> _determine_risk_level(trust_score.n, trust_score.d),
        confidence |-> _calculate_confidence_with_visual(all_explanations,
                                                         successful_analyses, total_modules),
        explanations |-> all_explanations,
        component_scores |->
            [s \in Sources |->
                IF s = "visual"
                THEN (IF visual_ok THEN [value |-> base_score + ScoreOf(res[s])]
                      ELSE [error |-> "N/A"])
                ELSE ComponentScore(res[s], "Error")],
        weights_used |-> adjusted_weights,
        analysis_status |-> [successful_modules |-> successful_analyses,
                             total_modules |-> total_modules,
                             partial_analysis |-> successful_analyses < total_modules]]

-----------------------------------------------------------------------------
(* RobustPhishingDetector: the results built in analyze_url and            *)
(* analyze_url_with_visual                                                 *)

ErrorScores(m) == [s \in ResultKeys(m) |-> [error |-> "Error"]]

EmptySignals(error) ==
    [error |-> error, negative_signals |-> <<>>, positive_signals |-> <<>>,
     neutral_signals |-> <<>>]

ValidationErrorResult(m, u, msg) ==
    [url |-> u, trust_score |-> 0, risk_level |-> "ERROR", confidence |-> 0,
     explanations |-> EmptySignals(<<"URL validation failed: ", msg>>),
     component_scores |-> ErrorScores(m)]

CriticalErrorResult(m, u, e) ==
    [url |-> u, trust_score |-> 0, risk_level |-> "ERROR", confidence |-> 0,
     explanations |-> EmptySignals(<<"Critical analysis error: ", e>>),
     component_scores |-> ErrorScores(m)]

\* result.get('error', default)
ErrorOr(r, default) == IF HasError(r) THEN r.error ELSE <<default>>

TotalFailureResult(m, u, res) ==
    [url |-> PyStr(u), trust_score |-> 0, risk_level |-> "ERROR", confidence |-> 0,
     explanations |->
        [error |-> <<"All analysis modules failed - URL may be unreachable or problematic">>,
         details |->
            <<ErrorOr(res["domain"], "Domain analysis failed"),
              ErrorOr(res["content"], "Content analysis failed"),
              ErrorOr(res["technical"], "Technical analysis failed")>>
            \o (IF m = "analyze_url_with_visual"
                THEN <<ErrorOr(res["visual"], "Visual analysis failed")>> ELSE <<>>)],
     component_scores |-> ErrorScores(m)]

\* The dict _check_whitelist builds from the store's answer q (q.hit holds).
WhitelistResult(u, q) ==
    [url |-> PyStr(u), trust_score |-> 95, risk_level |-> "LOW", confidence |-> 95,
     explanations |->
        [positive_signals |->
            <<[type |-> "positive",
               description |-> <<"Verified legitimate company: ", q.company_name>>,
               points |-> 25,
               evidence |-> <<"Industry: ", q.industry>>,
               module |-> "Company Database"]>>,
         negative_signals |-> <<>>,
         neutral_signals |->
            <<[type |-> "neutral",
               description |-> <<"Comprehensive analysis skipped for whitelisted domain">>,
               evidence |-> <<"Domain found in legitimate company database">>,
               module |-> "Company Database"]>>],
     component_scores |->
        [domain |-> [value |-> 95], content |-> [error |-> "Whitelisted"],
         technical |-> [error |-> "Whitelisted"], visual |-> [error |-> "Whitelisted"]],
     whitelist_info |-> q,
     analysis_status |-> [whitelisted |-> TRUE, analysis_bypassed |-> TRUE]]

\* A faulty variant: the handler lets the exception go.
HandleCritical_reraise(m, u, e) ==
    [raise |-> TRUE, value |-> CriticalErrorResult(m, u, e)]

\* The method's outermost `except Exception`: return, never raise.
HandleCritical(m, u, e) ==
    [raise |-> FALSE, value |-> CriticalErrorResult(m, u, e)]

\* A faulty variant: fewer than two successes count as total failure.
AllFailed_two(n) == n < 2

\* if successful_analyses == 0
AllFailed(n) == n = 0

\* The number the method has counted in successful_analyses.
SuccessfulAnalyses(m, va, res) ==
    LET order == CallOrder(m, va)
    IN Cardinality({i \in DOMAIN order : ~HasError(res[order[i]])})

\* What the method returns once every call has come back.
AggregateResult(m, va, u, res) ==
    IF AllFailed(SuccessfulAnalyses(m, va, res))
    THEN TotalFailureResult(m, u, res)
    ELSE IF m = "analyze_url_with_visual"
         THEN _combine_analysis_results_with_visual(u, res, va)
         ELSE _combine_analysis_results_robust(u, res)

-----------------------------------------------------------------------------
(* The arguments callers pass                                              *)

ACo == <<"a",".","c","o">>
BIo == <<"b",".","i","o">>

\* https://www.a.co/aaa...a padded with blanks: 2048 characters once stripped
UrlPaddedMax ==
    <<" ">> \o HttpsScheme \o <<"w","w","w",".">> \o ACo \o <<"/">>
    \o Repeat("a", MaxUrlLen - 17) \o <<" ">>

\* http://aaa...a, 2049 characters
UrlTooLong == HttpScheme \o Repeat("a", MaxUrlLen - 6)

UrlInputs ==
    {PyNone, PyInt, PyArray, PyStr(<<>>), PyStr(<<" ", " ">>),
     PyStr(ACo),
     PyStr(<<"H","T","T","P",":","/","/">> \o ACo),
     PyStr(HttpScheme \o BIo),
     PyStr(HttpScheme \o BIo \o <<"/","?","u","=","F","t","p",":","x">>),
     PyStr(HttpsScheme \o BIo \o <<"/","d","a","t","a",":","1">>),
     PyStr(UrlPaddedMax),
     PyStr(UrlTooLong)}

Methods == {"analyze_url", "analyze_url_with_visual"}

-----------------------------------------------------------------------------
(* State                                                                   *)

\* How long the model lets a blocked caller wait, in ticks.
MaxWait == 16

Unset == [unset |-> TRUE]

NoResponse == [none |-> TRUE]

\* visual_result = {'score': 0, 'explanations': []}
VisualDefault == [score |-> 0, explanations |-> <<>>]

\* results as analyze_domain creates it
EmptyResults == [score |-> 0, explanations |-> <<>>]

\* No analyze_domain call is being followed.
NoAnalysis ==
    /\ analyzed_domain = <<>>
    /\ results = EmptyResults
    /\ analyzer_pc = "idle"

IdleCall ==
    /\ NoAnalysis
    /\ pc = "idle"
    /\ entry = "none"
    /\ input = PyNone
    /\ url = <<>>
    /\ cur = 0
    /\ worker = "none"
    /\ waited = 0
    /\ invoked = <<>>
    /\ returned = [s \in Sources |-> Unset]
    /\ local_results = [s \in Sources |-> Unset]
    /\ store_queries = 0
    /\ response = NoResponse
    /\ raised = FALSE

\* How many ingestion threads and how many callers of force_reload the model
\* follows at a time.
MaxLoaders == 2

MaxReloaders == 2

LoaderIds == 1..MaxLoaders

ReloaderIds == 1..MaxReloaders

NoLoader == [pc |-> "none", line |-> 0, unlinked |-> FALSE]

\* A thread that _start_background_loading has just started.
NewLoader == [pc |-> "open", line |-> 0, unlinked |-> FALSE]

Miss == [hit |-> FALSE, company_name |-> "", industry |-> "", website |-> <<>>]

NoLookup == [called |-> FALSE, url |-> <<>>, q |-> Miss]

\* CompanyDatabase.__init__ over the corpus c and the cache file k:
\* _init_cache_db, and _start_background_loading when the dataset exists,
\* which loads a valid cache and otherwise starts the loader thread.
__init__(c, k) ==
    LET k1 == _init_cache_db(k)
        from_cache == c.status # "missing" /\ _is_cache_valid(k1, c)
        ingest == c.status # "missing" /\ ~_is_cache_valid(k1, c)
    IN [cache |-> k1,
        whitelist_domains |-> IF from_cache THEN CachedDomains(k1) ELSE {},
        company_lookup |-> IF from_cache THEN CachedLookup(k1, <<>>) ELSE <<>>,
        is_loaded |-> from_cache,
        loading_in_progress |-> ingest,
        loader |-> [t \in LoaderIds |->
                       IF t = 1 /\ ingest THEN NewLoader ELSE NoLoader]]

\* A store constructed over the corpus c and the cache file k.
ConstructOver(c, k) ==
    /\ corpus = c
    /\ cache = __init__(c, k).cache
    /\ whitelist_domains = __init__(c, k).whitelist_domains
    /\ company_lookup = __init__(c, k).company_lookup
    /\ is_loaded = __init__(c, k).is_loaded
    /\ loading_in_progress = __init__(c, k).loading_in_progress
    /\ loader = __init__(c, k).loader
    /\ reloader = [r \in ReloaderIds |-> "idle"]
    /\ lookup_result = NoLookup

\* A store constructed over the corpus c where there is no cache file yet:
\* the loader thread is started when the dataset exists, and nothing is
\* started when it does not.
Construct(c) == ConstructOver(c, NoCacheFile)

Init ==
    /\ \E dataset_exists \in BOOLEAN :
          Construct(IF dataset_exists THEN Corpus(Dataset) ELSE CorpusMissing)
    /\ visual_analyzer \in BOOLEAN
    /\ IdleCall

-----------------------------------------------------------------------------
(* CompanyDatabase._process_company_dataset, the loader thread             *)

\* The thread t is ingesting.
Ingesting(t) == loader[t].pc \in {"open", "read", "put"}

\* sqlite3.connect, the two DELETEs and open(self.database_path): on to the
\* first line, or to the outer except clause, which resets
\* loading_in_progress and ends the thread.  The DELETEs raise on a file
\* that is no database or has no tables; they are not committed here.
LoaderOpen(t) ==
    /\ loader[t].pc = "open"
    /\ IF cache.file = "ok" /\ corpus.status = "ok"
       THEN /\ loader' = [loader EXCEPT ![t] =
                             [pc |-> "read", line |-> 1, unlinked |-> FALSE]]
            /\ UNCHANGED loading_in_progress
       ELSE /\ loader' = [loader EXCEPT ![t] =
                             [pc |-> "failed", line |-> 0, unlinked |-> FALSE]]
            /\ loading_in_progress' = FALSE
    /\ UNCHANGED <<whitelist_domains, company_lookup, is_loaded, corpus,
                   reloader, lookup_result, visual_analyzer>>
    /\ UNCHANGED callVars
    /\ UNCHANGED analyzerVars
    /\ UNCHANGED cache

\* A faulty variant of the insert: the domain replaces the set instead of
\* joining it.
LoaderAdd_replacing(t) ==
    /\ loader[t].pc = "read"
    /\ loader[t].line <= Len(corpus.lines)
    /\ LineOutcome[corpus.lines[loader[t].line]].inserted
    /\ whitelist_domains' = {LineOutcome[corpus.lines[loader[t].line]].key}
    /\ loader' = [loader EXCEPT ![t].pc = "put"]
    /\ UNCHANGED <<company_lookup, is_loaded, loading_in_progress, corpus,
                   reloader, lookup_result, visual_analyzer>>
    /\ UNCHANGED callVars
    /\ UNCHANGED analyzerVars
    /\ UNCHANGED cache

\* A line whose record is inserted: whitelist_domains.add(normalized_domain)
LoaderAdd(t) ==
    /\ loader[t].pc = "read"
    /\ loader[t].line <= Len(corpus.lines)
    /\ LineOutcome[corpus.lines[loader[t].line]].inserted
    /\ whitelist_domains' =
          whitelist_domains \cup {LineOutcome[corpus.lines[loader[t].line]].key}
    /\ loader' = [loader EXCEPT ![t].pc = "put"]
    /\ UNCHANGED <<company_lookup, is_loaded, loading_in_progress, corpus,
                   reloader, lookup_result, visual_analyzer>>
    /\ UNCHANGED callVars
    /\ UNCHANGED analyzerVars
    /\ UNCHANGED cache

\* company_lookup[normalized_domain] = {...}, processed_count += 1 and the
\* batch commit when it is due, then on to the next line
LoaderPut(t) ==
    /\ loader[t].pc = "put"
    /\ LET rec == corpus.lines[loader[t].line]
           key == LineOutcome[rec].key
       IN company_lookup' =
            [d \in DOMAIN company_lookup \cup {key} |->
                IF d = key THEN RecordInfo(rec) ELSE company_lookup[d]]
    /\ cache' = IF BatchCommitDue(corpus.lines, loader[t].line)
                THEN Committed(cache, loader[t].unlinked, corpus.lines,
                               loader[t].line)
                ELSE cache
    /\ loader' = [loader EXCEPT ![t].pc = "read", ![t].line = loader[t].line + 1]
    /\ UNCHANGED <<whitelist_domains, is_loaded, loading_in_progress, corpus,
                   reloader, lookup_result, visual_analyzer>>
    /\ UNCHANGED callVars
    /\ UNCHANGED analyzerVars

\* A line that is skipped: no JSON object, no usable website, or an insert
\* that raises.  Nothing is inserted; an object with no usable website is
\* counted in processed_count, and the batch commit follows when it is due.
LoaderSkip(t) ==
    /\ loader[t].pc = "read"
    /\ loader[t].line <= Len(corpus.lines)
    /\ ~LineOutcome[corpus.lines[loader[t].line]].inserted
    /\ cache' = IF BatchCommitDue(corpus.lines, loader[t].line)
                THEN Committed(cache, loader[t].unlinked, corpus.lines,
                               loader[t].line)
                ELSE cache
    /\ loader' = [loader EXCEPT ![t].line = loader[t].line + 1]
    /\ UNCHANGED <<whitelist_domains, company_lookup, is_loaded,
                   loading_in_progress, corpus, reloader, lookup_result,
                   visual_analyzer>>
    /\ UNCHANGED callVars
    /\ UNCHANGED analyzerVars

\* A faulty variant of the end of file: the thread ends and is_loaded is
\* left as it was.
LoaderFinish_unflagged(t) ==
    /\ loader[t].pc = "read"
    /\ loader[t].line > Len(corpus.lines)
    /\ cache' = Committed(cache, loader[t].unlinked, corpus.lines,
                          Len(corpus.lines))
    /\ loading_in_progress' = FALSE
    /\ loader' = [loader EXCEPT ![t].pc = "done"]
    /\ UNCHANGED <<whitelist_domains, company_lookup, is_loaded, corpus,
                   reloader, lookup_result, visual_analyzer>>
    /\ UNCHANGED callVars
    /\ UNCHANGED analyzerVars

\* End of file: conn.commit(), is_loaded = True, loading_in_progress = False
LoaderFinish(t) ==
    /\ loader[t].pc = "read"
    /\ loader[t].line > Len(corpus.lines)
    /\ cache' = Committed(cache, loader[t].unlinked, corpus.lines,
                          Len(corpus.lines))
    /\ is_loaded' = TRUE
    /\ loading_in_progress' = FALSE
    /\ loader' = [loader EXCEPT ![t].pc = "done"]
    /\ UNCHANGED <<whitelist_domains, company_lookup, corpus, reloader,
                   lookup_result, visual_analyzer>>
    /\ UNCHANGED callVars
    /\ UNCHANGED analyzerVars

-----------------------------------------------------------------------------
(* CompanyDatabase.force_reload, called by the thread r                    *)

\* os.remove(cache), then self.whitelist_domains.clear().  The threads that
\* have the removed file open go on writing to it.
ReloadClearDomains(r) ==
    /\ reloader[r] = "idle"
    /\ cache' = NoCacheFile
    /\ loader' = [t \in LoaderIds |->
                     IF loader[t].pc \in {"read", "put"} /\ cache.file # "absent"
                     THEN [loader[t] EXCEPT !.unlinked = TRUE] ELSE loader[t]]
    /\ whitelist_domains' = {}
    /\ reloader' = [reloader EXCEPT ![r] = "clear_lookup"]
    /\ UNCHANGED <<company_lookup, is_loaded, loading_in_progress,
                   corpus, lookup_result, visual_analyzer>>
    /\ UNCHANGED callVars
    /\ UNCHANGED analyzerVars

\* self.company_lookup.clear()
ReloadClearLookup(r) ==
    /\ reloader[r] = "clear_lookup"
    /\ company_lookup' = <<>>
    /\ reloader' = [reloader EXCEPT ![r] = "unload"]
    /\ UNCHANGED <<whitelist_domains, is_loaded, loading_in_progress, loader,
                   corpus, lookup_result, visual_analyzer>>
    /\ UNCHANGED callVars
    /\ UNCHANGED analyzerVars
    /\ UNCHANGED cache

\* self.is_loaded = False, then _init_cache_db()
ReloadUnload(r) ==
    /\ reloader[r] = "unload"
    /\ is_loaded' = FALSE
    /\ cache' = _init_cache_db(cache)
    /\ reloader' = [reloader EXCEPT ![r] = "check"]
    /\ UNCHANGED <<whitelist_domains, company_lookup, loading_in_progress,
                   loader, corpus, lookup_result, visual_analyzer>>
    /\ UNCHANGED callVars
    /\ UNCHANGED analyzerVars

\* _start_background_loading: `if self.loading_in_progress or self.is_loaded:
\* return`; then a cache that is valid by now is loaded, and otherwise the
\* thread is started in the next step.
ReloadCheck(r) ==
    /\ reloader[r] = "check"
    /\ IF loading_in_progress \/ is_loaded
       THEN /\ reloader' = [reloader EXCEPT ![r] = "idle"]
            /\ UNCHANGED <<whitelist_domains, company_lookup, is_loaded>>
       ELSE IF _is_cache_valid(cache, corpus)
       THEN /\ whitelist_domains' = CachedDomains(cache)
            /\ company_lookup' = CachedLookup(cache, company_lookup)
            /\ is_loaded' = TRUE
            /\ reloader' = [reloader EXCEPT ![r] = "idle"]
       ELSE /\ reloader' = [reloader EXCEPT ![r] = "start"]
            /\ UNCHANGED <<whitelist_domains, company_lookup, is_loaded>>
    /\ UNCHANGED <<loading_in_progress, loader, corpus, lookup_result,
                   visual_analyzer, cache>>
    /\ UNCHANGED callVars
    /\ UNCHANGED analyzerVars

\* The thread slot a new ingestion thread takes.
FreeLoaders == {t \in LoaderIds : ~Ingesting(t)}

\* self.loading_in_progress = True; thread.start()
ReloadStart(r) ==
    /\ reloader[r] = "start"
    /\ FreeLoaders # {}
    /\ LET t == CHOOSE t \in FreeLoaders : \A k \in FreeLoaders : t <= k
       IN loader' = [loader EXCEPT ![t] = NewLoader]
    /\ loading_in_progress' = TRUE
    /\ reloader' = [reloader EXCEPT ![r] = "idle"]
    /\ UNCHANGED <<whitelist_domains, company_lookup, is_loaded, corpus,
                   lookup_result, visual_analyzer>>
    /\ UNCHANGED callVars
    /\ UNCHANGED analyzerVars
    /\ UNCHANGED cache

-----------------------------------------------------------------------------
(* CompanyDatabase.is_domain_whitelisted, called by any thread             *)

LookupUrls ==
    {HttpScheme \o ACo,
     Dataset[2].website,
     <<"A",".","C","O">>,
     HttpScheme \o <<"b","l","o","g",".","c",".","i","o">>,
     <<"c",".","i","o","/","x">>,
     <<"d",".","i","o">>,
     HttpScheme \o BIo,
     <<>>}

Lookup(u) ==
    /\ lookup_result' =
          [called |-> TRUE, url |-> u,
           q |-> is_domain_whitelisted(u, whitelist_domains, company_lookup)]
    /\ UNCHANGED <<whitelist_domains, company_lookup, is_loaded,
                   loading_in_progress, loader, corpus, reloader, visual_analyzer>>
    /\ UNCHANGED callVars
    /\ UNCHANGED analyzerVars
    /\ UNCHANGED cache

-----------------------------------------------------------------------------
(* RobustPhishingDetector.analyze_url / analyze_url_with_visual            *)

\* The source the caller is calling or about to call.
CurSource == CallOrder(entry, visual_analyzer)[cur]

\* The method returns the dict r.
ReturnWith(r) ==
    /\ pc' = "done"
    /\ response' = r
    /\ raised' = FALSE
    /\ worker' = "none"
    /\ waited' = 0

\* An exception reaches the method's outermost handler.
Critical(m, u, e) ==
    LET h == HandleCritical(m, u, e)
    IN /\ pc' = "done"
       /\ response' = IF h.raise THEN NoResponse ELSE h.value
       /\ raised' = h.raise
       /\ worker' = "none"
       /\ waited' = 0

\* The call: _validate_url, and the early return of an invalid argument.
Begin(m, u) ==
    /\ pc = "idle"
    /\ entry' = m
    /\ input' = u
    /\ LET v == _validate_url(u)
       IN IF v.exc
          THEN Critical(m, u, v.msg) /\ url' = url
          ELSE IF ~v.valid
          THEN ReturnWith(ValidationErrorResult(m, u, v.msg)) /\ url' = url
          ELSE /\ url' = v.url
               /\ pc' = "whitelist"
               /\ UNCHANGED <<response, raised, worker, waited>>
    /\ UNCHANGED <<cur, invoked, returned, local_results, store_queries>>
    /\ UNCHANGED storeVars
    /\ UNCHANGED analyzerVars
    /\ UNCHANGED visual_analyzer

\* _check_whitelist: one read of the store; a hit returns at once.
CheckWhitelist ==
    /\ pc = "whitelist"
    /\ store_queries' = store_queries + 1
    /\ LET q == is_domain_whitelisted(url, whitelist_domains, company_lookup)
       IN IF q.hit
          THEN ReturnWith(WhitelistResult(url, q)) /\ cur' = cur
          ELSE /\ pc' = "submit"
               /\ cur' = 1
               /\ UNCHANGED <<response, raised, worker, waited>>
    /\ UNCHANGED <<entry, input, url, invoked, returned, local_results>>
    /\ UNCHANGED storeVars
    /\ UNCHANGED analyzerVars
    /\ UNCHANGED visual_analyzer

\* execute_with_timeout: executor.submit(func, ...) starts the worker, and
\* the caller blocks in future.result(timeout=timeout_seconds).
Submit ==
    /\ pc = "submit"
    /\ worker' = "running"
    /\ waited' = 0
    /\ invoked' = Append(invoked, CurSource)
    /\ pc' = "wait"
    /\ UNCHANGED <<entry, input, url, cur, returned, local_results,
                   store_queries, response, raised>>
    /\ UNCHANGED storeVars
    /\ UNCHANGED analyzerVars
    /\ UNCHANGED visual_analyzer

\* Time passes while the caller is blocked on a worker that is still
\* running: in future.result up to the timeout, in the executor's shutdown
\* for as long as the worker runs.
Tick ==
    /\ worker = "running"
    /\ \/ pc = "wait" /\ waited < timeouts[CurSource]
       \/ pc = "shutdown" /\ waited < MaxWait
    /\ waited' = waited + 1
    /\ UNCHANGED <<pc, entry, input, url, cur, worker, invoked, returned,
                   local_results, store_queries, response, raised>>
    /\ UNCHANGED storeVars
    /\ UNCHANGED analyzerVars
    /\ UNCHANGED visual_analyzer

\* The caller has the dict r of the current source: on to the next call, or
\* to the aggregation after the last one.
Collected(o, r) ==
    LET order == CallOrder(entry, visual_analyzer)
        s == order[cur]
    IN /\ returned' = [returned EXCEPT ![s] = o]
       /\ local_results' =
            [k \in Sources |->
                IF k = s THEN r
                ELSE IF k = "visual" /\ s = "content" /\ entry = "analyze_url_with_visual"
                THEN VisualDefault
                ELSE local_results[k]]
       /\ worker' = "none"
       /\ waited' = 0
       /\ IF cur < Len(order)
          THEN pc' = "submit" /\ cur' = cur + 1
          ELSE pc' = "aggregate" /\ cur' = cur
       /\ UNCHANGED <<response, raised>>

\* The worker ends with some outcome o before the timeout: future.result returns
\* or raises it, the executor shuts down at once, and _safe_analyzer_call
\* hands the caller a dict.
WorkerReturn ==
    /\ pc = "wait"
    /\ worker = "running"
    /\ \E o \in Outcomes(CurSource) :
          LET r == _safe_analyzer_call(AnalyzerName[CurSource], o)
          IN IF r.exc
             THEN /\ Critical(entry, PyStr(url), o.exc)
                  /\ UNCHANGED <<cur, returned, local_results>>
             ELSE Collected(o, r.value)
    /\ UNCHANGED <<entry, input, url, invoked, store_queries>>
    /\ UNCHANGED storeVars
    /\ UNCHANGED analyzerVars
    /\ UNCHANGED visual_analyzer

\* future.result raises FutureTimeoutError; leaving the `with` block calls
\* executor.shutdown(wait=True), which blocks while the worker runs.
Timeout ==
    /\ pc = "wait"
    /\ worker = "running"
    /\ waited >= timeouts[CurSource]
    /\ pc' = "shutdown"
    /\ UNCHANGED <<entry, input, url, cur, worker, waited, invoked, returned,
                   local_results, store_queries, response, raised>>
    /\ UNCHANGED storeVars
    /\ UNCHANGED analyzerVars
    /\ UNCHANGED visual_analyzer

\* The overdue worker ends; shutdown returns, TimeoutError is raised and
\* _safe_analyzer_call turns it into the timeout dict.
WorkerFinishLate ==
    /\ pc = "shutdown"
    /\ worker = "running"
    /\ LET r == _safe_analyzer_call(AnalyzerName[CurSource], TimedOut)
       IN IF r.exc
          THEN /\ Critical(entry, PyStr(url), TimedOut.exc)
               /\ UNCHANGED <<cur, returned, local_results>>
          ELSE Collected(TimedOut, r.value)
    /\ UNCHANGED <<entry, input, url, invoked, store_queries>>
    /\ UNCHANGED storeVars
    /\ UNCHANGED analyzerVars
    /\ UNCHANGED visual_analyzer

\* Every call has come back: total failure, or the combined result.
Aggregate ==
    /\ pc = "aggregate"
    /\ ReturnWith(AggregateResult(entry, visual_analyzer, url, local_results))
    /\ UNCHANGED <<entry, input, url, cur, invoked, returned, local_results,
                   store_queries>>
    /\ UNCHANGED storeVars
    /\ UNCHANGED analyzerVars
    /\ UNCHANGED visual_analyzer

\* The caller has its result; the detector is ready for the next call.
Return ==
    /\ pc = "done"
    /\ pc' = "idle"
    /\ entry' = "none"
    /\ input' = PyNone
    /\ url' = <<>>
    /\ cur' = 0
    /\ worker' = "none"
    /\ waited' = 0
    /\ invoked' = <<>>
    /\ returned' = [s \in Sources |-> Unset]
    /\ local_results' = [s \in Sources |-> Unset]
    /\ store_queries' = 0
    /\ response' = NoResponse
    /\ raised' = FALSE
    /\ UNCHANGED storeVars
    /\ UNCHANGED analyzerVars
    /\ UNCHANGED visual_analyzer

Next ==
    \/ \E m \in Methods, u \in UrlInputs : Begin(m, u)
    \/ CheckWhitelist
    \/ Submit
    \/ Tick
    \/ WorkerReturn
    \/ Timeout
    \/ WorkerFinishLate
    \/ Aggregate
    \/ Return
    \/ \E t \in LoaderIds : LoaderOpen(t)
    \/ \E t \in LoaderIds : LoaderAdd(t)
    \/ \E t \in LoaderIds : LoaderPut(t)
    \/ \E t \in LoaderIds : LoaderSkip(t)
    \/ \E t \in LoaderIds : LoaderFinish(t)

Spec == Init /\ [][Next]_vars

-----------------------------------------------------------------------------
(* The store on its own: construction, ingestion, force_reload, lookups    *)

\* The corpora the store is constructed over.
Corpora ==
    {Corpus(Dataset), Corpus(DatasetMalformed), CorpusMissing, CorpusUnreadable}

\* A store just constructed; no detector call is under way.
InitStore ==
    /\ \E c \in Corpora : Construct(c)
    /\ visual_analyzer = FALSE
    /\ IdleCall

\* One step of the ingestion thread t.
LoaderStep(t) ==
    \/ LoaderOpen(t)
    \/ LoaderAdd(t)
    \/ LoaderPut(t)
    \/ LoaderSkip(t)
    \/ LoaderFinish(t)

\* One step of the force_reload call of thread r.
ReloadStep(r) ==
    \/ ReloadClearDomains(r)
    \/ ReloadClearLookup(r)
    \/ ReloadUnload(r)
    \/ ReloadCheck(r)
    \/ ReloadStart(r)

\* Ingestion and lookups, with no force_reload; the threads are scheduled
\* fairly.
NextLoad ==
    \/ \E t \in LoaderIds : LoaderOpen(t)
    \/ \E t \in LoaderIds : LoaderAdd(t)
    \/ \E t \in LoaderIds : LoaderPut(t)
    \/ \E t \in LoaderIds : LoaderSkip(t)
    \/ \E t \in LoaderIds : LoaderFinish(t)
    \/ \E u \in LookupUrls : Lookup(u)

SpecLoad ==
    InitStore /\ [][NextLoad]_vars /\ \A t \in LoaderIds : WF_vars(LoaderStep(t))

\* Ingestion and force_reload calls from several threads.
NextStore ==
    \/ \E t \in LoaderIds : LoaderOpen(t)
    \/ \E t \in LoaderIds : LoaderAdd(t)
    \/ \E t \in LoaderIds : LoaderPut(t)
    \/ \E t \in LoaderIds : LoaderSkip(t)
    \/ \E t \in LoaderIds : LoaderFinish(t)
    \/ \E r \in ReloaderIds : ReloadClearDomains(r)
    \/ \E r \in ReloaderIds : ReloadClearLookup(r)
    \/ \E r \in ReloaderIds : ReloadUnload(r)
    \/ \E r \in ReloaderIds : ReloadCheck(r)
    \/ \E r \in ReloaderIds : ReloadStart(r)

SpecStore == InitStore /\ [][NextStore]_vars

-----------------------------------------------------------------------------
(* The store across process starts: the cache file outlives the process    *)

\* The cache files a first start may find: none, or a file that is no
\* database.
FirstCaches == {NoCacheFile, CorruptCache}

InitCache ==
    /\ \E c \in Corpora, k \in FirstCaches : ConstructOver(c, k)
    /\ visual_analyzer = FALSE
    /\ IdleCall

\* The process ends, at any point: the loader is a daemon thread, so it ends
\* with it and its uncommitted inserts are rolled back.  The dataset file
\* may be rewritten before the store is constructed again over the cache
\* file as the last commit left it.  Lookups are made in between.
Restart(touched) ==
    LET k == IF touched THEN [cache EXCEPT !.newer = FALSE] ELSE cache
        s == __init__(corpus, k)
    IN /\ cache' = s.cache
       /\ whitelist_domains' = s.whitelist_domains
       /\ company_lookup' = s.company_lookup
       /\ is_loaded' = s.is_loaded
       /\ loading_in_progress' = s.loading_in_progress
       /\ loader' = s.loader
       /\ reloader' = [r \in ReloaderIds |-> "idle"]
       /\ lookup_result' = NoLookup
       /\ UNCHANGED <<corpus, visual_analyzer>>
       /\ UNCHANGED callVars
       /\ UNCHANGED analyzerVars

NextCache ==
    \/ \E t \in LoaderIds : LoaderOpen(t)
    \/ \E t \in LoaderIds : LoaderAdd(t)
    \/ \E t \in LoaderIds : LoaderPut(t)
    \/ \E t \in LoaderIds : LoaderSkip(t)
    \/ \E t \in LoaderIds : LoaderFinish(t)
    \/ \E u \in LookupUrls : Lookup(u)
    \/ \E touched \in BOOLEAN : Restart(touched)

SpecCache == InitCache /\ [][NextCache]_vars

-----------------------------------------------------------------------------
(* A detector over a store whose corpus cannot be read                     *)

\* The corpus file is absent, or present and not readable.
NoCorpora == {CorpusMissing, CorpusUnreadable}

\* The arguments of the detector calls made over such a store.
NoCorpusInputs ==
    {PyStr(u) : u \in {HttpScheme \o ACo, Dataset[2].website,
                       <<"d",".","i","o">>, <<>>}}

\* A store constructed over an absent or unreadable corpus, and a detector
\* that holds it.
InitNoCorpus ==
    /\ \E c \in NoCorpora : Construct(c)
    /\ visual_analyzer = FALSE
    /\ IdleCall

\* The loader's attempt to open the file, force_reload calls from several
\* threads, and a detector call up to the end of its whitelist check.
NextNoCorpus ==
    \/ \E t \in LoaderIds : LoaderOpen(t)
    \/ \E r \in ReloaderIds : ReloadClearDomains(r)
    \/ \E r \in ReloaderIds : ReloadClearLookup(r)
    \/ \E r \in ReloaderIds : ReloadUnload(r)
    \/ \E r \in ReloaderIds : ReloadCheck(r)
    \/ \E r \in ReloaderIds : ReloadStart(r)
    \/ \E m \in Methods, u \in NoCorpusInputs : Begin(m, u)
    \/ CheckWhitelist

SpecNoCorpus == InitNoCorpus /\ [][NextNoCorpus]_vars

-----------------------------------------------------------------------------
(* The aggregation on its own: a call that has collected every result      *)

\* Further well-formed results of the analyzers: scores that put the trust
\* score on and beside the tier thresholds, explanations with equal points
\* within and across sources, weak and strong signals, missing keys.
WideResults ==
    [domain |->
        {[score |-> -30, explanations |->
             <<Exp("negative", 30, "Typosquatting of a known brand")>>],
         [score |-> -50, explanations |->
             <<Exp("negative", 25, "High entropy label"),
               Exp("negative", 25, "Homograph characters"),
               Exp("positive", 8, "Common TLD"),
               Exp("negative", 9, "Many subdomains")>>],
         [score |-> 1, explanations |-> <<>>],
         [explanations |->
             <<Exp("positive", 7, "DNS records present"),
               Exp("positive", 10, "Domain older than a year"),
               [type |-> "neutral", description |-> <<"Uses uncommon TLD">>]>>]},
     content |->
        {[score |-> -1, explanations |->
             <<[type |-> "negative", description |-> <<"Few links">>]>>],
         [score |-> -85, explanations |->
             <<Exp("negative", 25, "Password field on insecure page"),
               Exp("negative", 30, "Credential harvesting form"),
               Exp("negative", 10, "Urgency language"),
               Exp("positive", 8, "Privacy policy present")>>],
         [score |-> 12, explanations |->
             <<Exp("positive", 10, "Contact information present"),
               Exp("positive", 2, "Rich content")>>],
         [score |-> 0]},
     technical |->
        {[score |-> -100, explanations |->
             <<Exp("negative", 25, "Blacklisted IP"),
               Exp("negative", 10, "Redirect chain")>>],
         [score |-> 3, explanations |->
             <<Exp("positive", 3, "Security headers present")>>],
         [score |-> 25, explanations |->
             <<Exp("positive", 10, "Valid certificate"),
               Exp("positive", 15, "Reputable hosting")>>],
         [score |-> -9, explanations |->
             <<Exp("negative", 9, "Short certificate lifetime"),
               [type |-> "neutral", description |-> <<"Basic DNS records present">>]>>]},
     visual |->
        {[score |-> -25, explanations |->
             <<Exp("negative", 25, "Logo of a brand on a foreign domain")>>],
         [score |-> 10, explanations |->
             <<Exp("positive", 10, "Logo matches a verified company")>>],
         [score |-> 0, explanations |-> <<>>],
         [score |-> -40, explanations |->
             <<Exp("negative", 30, "Logo of another brand"),
               Exp("negative", 10, "Low quality copy of a logo")>>]}]

\* What a source's call ended with, in the calls the aggregation is examined
\* on.
AggOutcomes(s) ==
    {[kind |-> "dict", value |-> d, exc |-> ""] :
        d \in OkResults[s] \cup WideResults[s] \cup {ErrDict}}
    \cup {TimedOut, [kind |-> "raise", value |-> ErrDict, exc |-> "MemoryError"]}

\* The locals of a call of method m that has called its sources in order,
\* source s having ended with outs[s].
CollectedResults(m, va, outs) ==
    [s \in Sources |->
        IF \E i \in DOMAIN CallOrder(m, va) : CallOrder(m, va)[i] = s
        THEN _safe_analyzer_call(AnalyzerName[s], outs[s]).value
        ELSE IF s = "visual" /\ m = "analyze_url_with_visual" THEN VisualDefault
        ELSE Unset]

\* A call of either method on a valid URL that missed the whitelist and has
\* every source's result in hand.
InitAgg ==
    /\ Construct(CorpusMissing)
    /\ NoAnalysis
    /\ visual_analyzer \in BOOLEAN
    /\ entry \in Methods
    /\ input = PyStr(HttpScheme \o BIo)
    /\ url = HttpScheme \o BIo
    /\ pc = "aggregate"
    /\ cur = Len(CallOrder(entry, visual_analyzer))
    /\ worker = "none"
    /\ waited = 0
    /\ invoked = CallOrder(entry, visual_analyzer)
    /\ store_queries = 1
    /\ response = NoResponse
    /\ raised = FALSE
    /\ \E od \in AggOutcomes("domain"), ot \in AggOutcomes("technical"),
          oc \in AggOutcomes("content"), ov \in AggOutcomes("visual") :
          LET outs == [domain |-> od, technical |-> ot, content |-> oc, visual |-> ov]
          IN /\ returned = [s \in Sources |->
                               IF s = "visual" /\ ~(entry = "analyze_url_with_visual"
                                                    /\ visual_analyzer)
                               THEN Unset ELSE outs[s]]
             /\ local_results = CollectedResults(entry, visual_analyzer, outs)

NextAgg ==
    \/ Aggregate
    \/ Return

SpecAgg == InitAgg /\ [][NextAgg]_vars

-----------------------------------------------------------------------------
(* DomainAnalyzer.analyze_domain: the advanced detection features          *)

\* The netloc of the URLs analyzed: look-alikes of the brands, the brands
\* themselves, random and unusual labels, Punycode, Cyrillic letters
\* (U+0430, U+043E, U+0435), names without a dot.
Hostnames ==
    {<<"p","a","y","p","a","1",".","c","o","m">>,
     <<"p","a","y","p","a","l",".","c","o","m">>,
     <<"w","w","w",".","p","a","y","p","a","l",".","c","o","m">>,
     <<"w","w","w",".","p","a","y","p","a","1",".","c","o","m">>,
     <<"P","a","y","P","a","1",".","c","o","m">>,
     <<"x","k","7","q","z","9","w","j","2","p",".","c","o","m">>,
     <<"g","o","o","g","l","e",".","c","o","m">>,
     <<"g","o","o","o","g","l","e",".","c","o","m">>,
     <<"x","n","-","-","p","y","p","a","l","-","4","v","e",".","c","o","m">>,
     <<"p","U+0430","y","p","a","l",".","c","o","m">>,
     <<"b","c","d","f","g","h",".","c","o","m">>,
     <<"s","t","r","e","n","g","t","h",".","c","o","m">>,
     <<"a","e","i","o","u","1",".","c","o","m">>,
     <<"q","1","w","2","e","3","r","4","t","5","y","6","u","7","i","8",".","n","e","t">>,
     <<"l","o","c","a","l","h","o","s","t">>,
     <<"a","b","c",".","i","o">>,
     <<"w","w","w","b","c","d","f","g","h",".","c","o","m">>,
     <<"r","h","y","t","h","m","s",".","o","r","g">>,
     <<"w","w","w",".","x","k","7","q","z","9","w","j","2","p",".","c","o","m">>,
     <<"a","m","a","z","o","m",".","c","o","m">>,
     <<"a","r","n","a","z","o","n",".","c","o","m">>,
     <<"f","a","c","e","b","o","o","o","k",".","c","o","m">>,
     <<"n","e","t","f","l","i","x",".","c","o">>,
     <<"t","w","i","t","e","r",".","c","o","m">>,
     <<"a","p","p","i","e",".","c","o","m">>,
     <<"e","b","a","y",".","c","o">>,
     <<"c","h","a","s","e",".","c","o">>,
     <<"g","o","g","g","l","e",".","c","o","m">>,
     <<"w","e","l","l","s","-","f","a","r","g","0",".","c","o","m">>,
     <<"b","a","n","k","o","f","a","m","e","r","i","c","a",".","c","o">>,
     <<"m","i","c","r","0","s","o","f","t",".","c","o","m">>,
     <<"s","p","o","t","i","f","y",".","c","o","m",".","e","v","i","l",".","i","o">>,
     <<"l","i","n","k","e","d","l","n",".","c","o","m">>,
     <<"g","U+043E","U+043E","g","l","e",".","c","o","m">>,
     <<"b","c","d","f","g","h","j","k","l","m","n","p","q","r","s","t",".","c","o","m">>,
     <<"a","p","p","l","U+0435",".","c","o","m">>}

\* analyze_domain has run the network-dependent analyzers, which are not
\* followed here and have added nothing, and is about to call
\* _detect_typosquatting.
InitDomain ==
    /\ Construct(CorpusMissing)
    /\ visual_analyzer = FALSE
    /\ pc = "idle"
    /\ entry = "none"
    /\ input = PyNone
    /\ url = <<>>
    /\ cur = 0
    /\ worker = "none"
    /\ waited = 0
    /\ invoked = <<>>
    /\ returned = [s \in Sources |-> Unset]
    /\ local_results = [s \in Sources |-> Unset]
    /\ store_queries = 0
    /\ response = NoResponse
    /\ raised = FALSE
    /\ analyzed_domain \in Hostnames
    /\ results = EmptyResults
    /\ analyzer_pc = "typosquatting"

\* self._detect_typosquatting(domain, results): the loop over the set of
\* brands, whose order is not fixed, stops at any brand it flags.
DetectTyposquatting ==
    /\ analyzer_pc = "typosquatting"
    /\ \E brand_domain \in major_brands :
          /\ TyposquattingMatches(analyzed_domain) # {} =>
                brand_domain \in TyposquattingMatches(analyzed_domain)
          /\ results' = _detect_typosquatting(analyzed_domain, results, brand_domain)
    /\ analyzer_pc' = "homograph"
    /\ UNCHANGED analyzed_domain
    /\ UNCHANGED storeVars
    /\ UNCHANGED callVars
    /\ UNCHANGED visual_analyzer

\* self._detect_homograph_attacks(domain, results)
DetectHomograph ==
    /\ analyzer_pc = "homograph"
    /\ results' = _detect_homograph_attacks(analyzed_domain, results)
    /\ analyzer_pc' = "entropy"
    /\ UNCHANGED analyzed_domain
    /\ UNCHANGED storeVars
    /\ UNCHANGED callVars
    /\ UNCHANGED visual_analyzer

\* self._analyze_domain_entropy(domain, results); return results
AnalyzeEntropy ==
    /\ analyzer_pc = "entropy"
    /\ results' = _analyze_domain_entropy(analyzed_domain, results)
    /\ analyzer_pc' = "done"
    /\ UNCHANGED analyzed_domain
    /\ UNCHANGED storeVars
    /\ UNCHANGED callVars
    /\ UNCHANGED visual_analyzer

NextDomain ==
    \/ DetectTyposquatting
    \/ DetectHomograph
    \/ AnalyzeEntropy

SpecDomain == InitDomain /\ [][NextDomain]_vars

-----------------------------------------------------------------------------
(* Vocabulary of the properties                                            *)

RiskLevels == {"LOW", "MEDIUM", "HIGH", "CRITICAL", "ERROR"}

\* The method has returned or raised.
Ended == pc = "done"

\* The method ended after it had started calling the sources.
EndedPastCollection == pc = "done" /\ Len(invoked) > 0

\* The returned dict is a combined result.
Aggregated == Ended /\ "weights_used" \in DOMAIN response

\* The returned dict is the whitelist short-circuit.
Whitelisted == Ended /\ "whitelist_info" \in DOMAIN response

\* The returned dict is the total-failure result.
TotalFailure ==
    Ended /\ "explanations" \in DOMAIN response
          /\ "details" \in DOMAIN response.explanations

\* The sources the method is configured to call, and the one being called.
Configured == {CallOrder(entry, visual_analyzer)[i] :
                  i \in DOMAIN CallOrder(entry, visual_analyzer)}

Called == {invoked[i] : i \in DOMAIN invoked}

\* What a source did counts as a failure.
FailureOutcome(o) ==
    \/ o.kind = "raise"
    \/ o.kind = "nondict"
    \/ o.kind = "dict" /\ HasError(o.value)

Succeeded == {s \in Called : "kind" \in DOMAIN returned[s] /\ ~FailureOutcome(returned[s])}

Failed == {s \in Called : "kind" \in DOMAIN returned[s] /\ FailureOutcome(returned[s])}

-----------------------------------------------------------------------------
(* C1 *)

WellFormedResult(r) ==
    /\ {"trust_score", "confidence", "risk_level", "component_scores"} \subseteq DOMAIN r
    /\ r.risk_level \in RiskLevels
    /\ {"domain", "content", "technical"} \subseteq DOMAIN r.component_scores

\* C1: a call never raises, whatever the argument and whatever the sources
\* do; whenever it ends, it has returned a dict with trust_score, confidence,
\* a risk_level among LOW, MEDIUM, HIGH, CRITICAL, ERROR, and
\* component_scores for domain, content and technical.
C1_ReturnsWellFormedNeverRaises ==
    /\ ~raised
    /\ Ended => WellFormedResult(response)

\* A combined result of a call in which one source ran out of memory, one
\* timed out and one returned something that is no dict.
C1_Witness ==
    /\ Aggregated
    /\ entry = "analyze_url_with_visual"
    /\ Called = Sources
    /\ returned["domain"].exc = "MemoryError"
    /\ returned["technical"].exc = "TimeoutError"
    /\ returned["content"].kind = "nondict"
    /\ WellFormedResult(response)

-----------------------------------------------------------------------------
(* C2 *)

WeightOf(w, s) == IF s \in DOMAIN w.num THEN w.num[s] ELSE 0

WeightSum(w, S) ==
    (IF "domain" \in S THEN WeightOf(w, "domain") ELSE 0)
    + (IF "content" \in S THEN WeightOf(w, "content") ELSE 0)
    + (IF "technical" \in S THEN WeightOf(w, "technical") ELSE 0)
    + (IF "visual" \in S THEN WeightOf(w, "visual") ELSE 0)

\* C2: in every combined result of either method, the weights_used of the
\* sources that succeeded sum to 1 (numerators sum to the denominator).
C2_SucceededWeightsSumToOne ==
    Aggregated => WeightSum(response.weights_used, Succeeded)
                    = response.weights_used.den

-----------------------------------------------------------------------------
(* C3 *)

\* C3: every returned result (validation error, whitelist hit, total
\* failure, combined result) has an integer trust_score in 0..100.
C3_TrustScoreInRange == Ended /\ ~raised => response.trust_score \in 0..100

\* A combined result whose weighted sum lies far above the range: the
\* technical source reported +1000 and the score is held at 100.
C3_Witness ==
    /\ Aggregated
    /\ "technical" \in Succeeded
    /\ returned["technical"].value.score = 1000
    /\ response.trust_score = 100

-----------------------------------------------------------------------------
(* C4 *)

\* C4: once a source's timeout has expired the caller does not wait for it
\* any longer: the caller is never found still blocked on a running worker
\* after more time than the source's timeout has passed.
C4_NoWaitingPastTimeout ==
    pc \in {"wait", "shutdown"} /\ worker = "running"
        => waited <= timeouts[CurSource]

-----------------------------------------------------------------------------
(* C5 *)

\* C5: an analysis ends within the overall deadline timeouts['total']: the
\* time a call has spent blocked on one source, a lower bound of the time
\* since it began, never exceeds the deadline while the call is under way.
C5_EndsWithinTotalDeadline ==
    pc \notin {"idle", "done"} => waited <= timeouts["total"]

-----------------------------------------------------------------------------
(* C6 *)

\* C6: the sources are invoked concurrently: whenever the caller is blocked
\* waiting for a source, every configured source has already been started.
C6_AllStartedBeforeWaiting ==
    pc \in {"wait", "shutdown"} => Called = Configured


-----------------------------------------------------------------------------
(* C7 *)

\* C7: failure isolation.  When a call that reached the sources has ended,
\* every configured source was invoked, in order, whatever the earlier ones
\* did; each source that raised, timed out, ran out of memory, returned no
\* dict or returned a dict with 'error' left a result carrying an error
\* string (naming that source when the wrapper built it); each source that
\* succeeded left exactly the dict it returned; and if at least one source
\* succeeded the call ended with a combined result whose risk_level is not
\* ERROR.
C7_FailureIsolation ==
    EndedPastCollection =>
        /\ ~raised
        /\ invoked = CallOrder(entry, visual_analyzer)
        /\ \A s \in Failed :
              /\ HasError(local_results[s])
              /\ Len(local_results[s].error) > 0
              /\ returned[s].kind # "dict"
                    => local_results[s].error[1] = AnalyzerName[s]
        /\ \A s \in Succeeded : local_results[s] = returned[s].value
        /\ Succeeded # {} => Aggregated /\ response.risk_level # "ERROR"

\* A call of analyze_url in which the domain source raised, the technical
\* source returned {'error': ...} and the content source succeeded.
C7_Witness ==
    /\ EndedPastCollection
    /\ entry = "analyze_url"
    /\ returned["domain"].exc = "Exception"
    /\ returned["technical"].kind = "dict" /\ HasError(returned["technical"].value)
    /\ Succeeded = {"content"}
    /\ response.risk_level \in {"LOW", "MEDIUM", "HIGH", "CRITICAL"}

-----------------------------------------------------------------------------
(* C8 *)

\* The failure reasons the total-failure result is to list: one per source,
\* in the order domain, content, technical, visual.
FailureReasons ==
    <<local_results["domain"].error, local_results["content"].error,
      local_results["technical"].error>>
    \o (IF entry # "analyze_url_with_visual" THEN <<>>
        ELSE IF visual_analyzer THEN <<local_results["visual"].error>>
        ELSE << <<"Visual analysis failed">> >>)

\* C8: when a call that reached the sources has ended and no configured
\* source succeeded, the result has risk_level ERROR, trust_score 0,
\* confidence 0 and lists one failure reason per source (three in
\* analyze_url, four in analyze_url_with_visual); and such a call ends with
\* risk_level ERROR only if no source succeeded.
C8_TotalFailureIsError ==
    EndedPastCollection =>
        /\ Succeeded = {} =>
              /\ response.risk_level = "ERROR"
              /\ response.trust_score = 0
              /\ response.confidence = 0
              /\ TotalFailure
              /\ Len(response.explanations.details) = Cardinality(ResultKeys(entry))
              /\ response.explanations.details = FailureReasons
        /\ response.risk_level = "ERROR" => Succeeded = {}

\* A total failure of analyze_url_with_visual with all four sources
\* configured: four reasons, the visual one a timeout.
C8_Witness ==
    /\ TotalFailure
    /\ entry = "analyze_url_with_visual"
    /\ Called = Sources
    /\ Succeeded = {}
    /\ returned["visual"].exc = "TimeoutError"
    /\ Len(response.explanations.details) = 4

-----------------------------------------------------------------------------
(* C9 *)

\* C9: a whitelist hit returns trust_score 95 and risk_level LOW with a
\* positive explanation that names the company of an ingested record for the
\* domain, and no source was invoked during the request.
C9_WhitelistHitNamesCompany ==
    Whitelisted =>
        /\ response.trust_score = 95
        /\ response.risk_level = "LOW"
        /\ invoked = <<>>
        /\ \E i \in DOMAIN Dataset :
              /\ Ingestible(Dataset[i])
              /\ RecordKey(Dataset[i]) \in whitelist_domains
              /\ response.explanations.positive_signals[1].description
                    = <<"Verified legitimate company: ", Dataset[i].name>>

-----------------------------------------------------------------------------
(* C10 *)

\* The inputs the validation is to reject: not a string, empty, or, once
\* trimmed, without an http(s):// prefix, longer than 2048 characters, or
\* containing one of the four scheme names in any letter case.
ClaimRejects(u) ==
    \/ u.t # "str"
    \/ Len(u.v) = 0
    \/ LET s == str_strip(u.v)
       IN \/ ~str_startswith(s, HttpScheme) /\ ~str_startswith(s, HttpsScheme)
          \/ Len(s) > MaxUrlLen
          \/ \E k \in DOMAIN suspicious_patterns :
                \E i \in 1..Len(s) :
                    /\ i + Len(suspicious_patterns[k]) - 1 <= Len(s)
                    /\ \A j \in 1..Len(suspicious_patterns[k]) :
                          LowerChar(s[i + j - 1]) = suspicious_patterns[k][j]

RejectedInputs == {u \in UrlInputs : ClaimRejects(u)}

\* C10: an argument is rejected exactly when the rule above says so.  A
\* rejected argument ends the call at once with risk_level ERROR,
\* trust_score 0 and confidence 0, the store never read and no source
\* invoked; any other argument goes on to the whitelist check.
C10_ValidationRejectsExactly ==
    pc # "idle" =>
        IF input \in RejectedInputs
        THEN /\ pc = "done"
             /\ ~raised
             /\ response.risk_level = "ERROR"
             /\ response.trust_score = 0
             /\ response.confidence = 0
             /\ store_queries = 0
             /\ invoked = <<>>
        ELSE pc = "whitelist" \/ store_queries > 0

\* A call ended by the rejection of an argument whose only fault is "Ftp:"
\* in its query string.
C10_Witness ==
    /\ Ended
    /\ input = PyStr(HttpScheme \o BIo \o <<"/","?","u","=","F","t","p",":","x">>)
    /\ response.risk_level = "ERROR"
    /\ store_queries = 0


-----------------------------------------------------------------------------
(* C11 *)

\* The four tiers and the scores of each.
TierRange ==
    [LOW |-> 70..100, MEDIUM |-> 40..69, HIGH |-> 20..39, CRITICAL |-> 0..19]

Riskiness == [LOW |-> 0, MEDIUM |-> 1, HIGH |-> 2, CRITICAL |-> 3]

\* Over the integer scores 0..100 the mapping gives exactly one tier, the
\* tier of the thresholds, and a higher score never gets a riskier tier; the
\* whitelist result's fixed score and tier agree with it.
RiskMappingTotalMonotone ==
    /\ \A a \in 0..100 :
          /\ _determine_risk_level(a, 1) \in DOMAIN TierRange
          /\ a \in TierRange[_determine_risk_level(a, 1)]
    /\ \A a, b \in 0..100 :
          a <= b => Riskiness[_determine_risk_level(a, 1)]
                        >= Riskiness[_determine_risk_level(b, 1)]
    /\ LET w == WhitelistResult(HttpScheme \o ACo, Miss)
       IN w.trust_score \in TierRange[w.risk_level]

\* C11: in every result that is not an ERROR, risk_level is the tier of the
\* reported integer trust_score (>= 70 LOW, 40..69 MEDIUM, 20..39 HIGH,
\* below 20 CRITICAL), although the tier is taken from the score before it is
\* truncated; the mapping is total and monotonic over 0..100.
C11_RiskLevelIsTierOfScore ==
    /\ RiskMappingTotalMonotone
    /\ Ended /\ ~raised /\ response.risk_level # "ERROR" =>
          /\ response.risk_level \in DOMAIN TierRange
          /\ response.trust_score \in TierRange[response.risk_level]

\* Only the content source succeeded, with score -1: the score 69.65 is
\* reported as 69 and classified MEDIUM.
C11_Witness ==
    /\ Aggregated
    /\ entry = "analyze_url"
    /\ Succeeded = {"content"}
    /\ returned["content"].value.score = -1
    /\ response.trust_score = 69
    /\ response.risk_level = "MEDIUM"


-----------------------------------------------------------------------------
(* C12 *)

\* The index a load of the corpus c that runs from the first line to the
\* last leaves in memory.
LoadedIndex(c) ==
    {RecordKey(c.lines[i]) : i \in {k \in DOMAIN c.lines : Inserted(c.lines[k])}}

\* No force_reload call is under way and no ingestion thread is running.
StoreAtRest ==
    /\ \A r \in ReloaderIds : reloader[r] = "idle"
    /\ \A t \in LoaderIds : ~Ingesting(t)

\* C12: force_reload may be called at any time, also during a load: whenever
\* the store is at rest and loaded, a lookup of any URL gives the boolean it
\* gives on the full index of the corpus.
C12_ReloadRestoresFullIndex ==
    StoreAtRest /\ is_loaded =>
        \A u \in LookupUrls :
            is_domain_whitelisted(u, whitelist_domains, company_lookup).hit
                = is_domain_whitelisted(u, LoadedIndex(corpus), <<>>).hit


-----------------------------------------------------------------------------
(* C13 *)

\* C13: at most one ingestion thread is running at any time, however store
\* construction and force_reload calls from several threads interleave.
C13_AtMostOneIngestion ==
    Cardinality({t \in LoaderIds : Ingesting(t)}) <= 1


-----------------------------------------------------------------------------
(* C14 *)

\* C14: a lookup made at any moment of the background load reports a hit
\* only for a domain that ingestion has inserted, and the company name,
\* industry and website it returns with a hit are those of an ingested
\* record for that domain.
C14_HitCarriesIngestedRecord ==
    lookup_result.called /\ lookup_result.q.hit =>
        /\ _normalize_domain(lookup_result.url) \in whitelist_domains
        /\ \E i \in DOMAIN corpus.lines :
              /\ Inserted(corpus.lines[i])
              /\ RecordKey(corpus.lines[i]) = _normalize_domain(lookup_result.url)
              /\ lookup_result.q.company_name = corpus.lines[i].name
              /\ lookup_result.q.industry = corpus.lines[i].industry
              /\ lookup_result.q.website = corpus.lines[i].website


-----------------------------------------------------------------------------
(* C15 *)

\* The detector's whitelist check has run and missed, and the call goes on
\* to the analysis sources.
ProceedsToAnalysis == pc = "submit" /\ store_queries = 1 /\ cur = 1

-----------------------------------------------------------------------------
(* C16 *)

\* The store as the constructor leaves it over a readable corpus: empty,
\* not loaded, and exactly one ingestion running.
FreshlyConstructed ==
    /\ whitelist_domains = {}
    /\ company_lookup = <<>>
    /\ ~is_loaded
    /\ loading_in_progress
    /\ Cardinality({t \in LoaderIds : Ingesting(t)}) = 1
    /\ \A u \in LookupUrls :
          is_domain_whitelisted(u, whitelist_domains, company_lookup) = Miss

\* The ingestion has completed: the store is loaded, no load is in
\* progress, and the website of every ingested record is whitelisted.
LoadCompleted ==
    /\ is_loaded
    /\ ~loading_in_progress
    /\ \A t \in LoaderIds : ~Ingesting(t)
    /\ \A i \in DOMAIN corpus.lines :
          Inserted(corpus.lines[i]) =>
              is_domain_whitelisted(corpus.lines[i].website,
                                    whitelist_domains, company_lookup).hit

-----------------------------------------------------------------------------
(* C17 *)

\* The non-empty normalized domains of the lines of c that parse as JSON
\* objects with a non-empty website.
ObjectLineDomains(c) ==
    {k \in {RecordKey(c.lines[i]) :
               i \in {j \in DOMAIN c.lines :
                         Parses(c.lines[j]) /\ Len(c.lines[j].website) > 0}} :
        k # <<>>}

\* C17: after an ingestion has run to completion the index is exactly the
\* set of non-empty normalized domains of the lines that parse as JSON
\* objects with a non-empty website.
C17_IndexIsObjectLineDomains ==
    corpus.status = "ok" /\ is_loaded /\ (\A t \in LoaderIds : ~Ingesting(t)) =>
        whitelist_domains = ObjectLineDomains(corpus)


-----------------------------------------------------------------------------
(* C18 *)

\* The order in which the sources are listed for the explanations.
SourceRank == [domain |-> 1, content |-> 2, technical |-> 3, visual |-> 4]

SourceOfModule(module) == CHOOSE s \in Sources : ModuleName[s] = module

\* What source s hands to the explanations of the call, in the order it
\* emitted them.
Emitted(s) ==
    IF s \in ResultKeys(entry) THEN ModuleExplanations(s, local_results[s]) ELSE <<>>

EmissionIndex(e) ==
    LET em == Emitted(SourceOfModule(e.module))
    IN CHOOSE i \in DOMAIN em : em[i] = e

\* a comes before b in source order, or in emission order within a source
Precedes(a, b) ==
    LET ra == SourceRank[SourceOfModule(a.module)]
        rb == SourceRank[SourceOfModule(b.module)]
    IN ra < rb \/ (ra = rb /\ EmissionIndex(a) < EmissionIndex(b))

BucketOf(e) ==
    IF e.type = "negative" THEN "negative_signals"
    ELSE IF e.type = "positive" THEN "positive_signals"
    ELSE "neutral_signals"

Buckets == {"negative_signals", "positive_signals", "neutral_signals"}

\* The explanations the sources emitted for bucket b.
EmittedFor(b) ==
    UNION {{Emitted(s)[i] : i \in {k \in DOMAIN Emitted(s) : BucketOf(Emitted(s)[k]) = b}} :
              s \in Sources}

\* B is in descending order of points, ties in source order and then in
\* emission order.
BucketOrdered(B) ==
    \A i, j \in DOMAIN B :
        i < j => \/ PointsOf(B[i]) > PointsOf(B[j])
                 \/ PointsOf(B[i]) = PointsOf(B[j]) /\ Precedes(B[i], B[j])

\* C18: in an aggregated result each of the negative, positive and neutral
\* buckets holds exactly the explanations the sources emitted for it, in
\* descending order of points, ties in the source order Domain, Content,
\* Technical, Visual and then in emission order; the order is thereby a
\* function of the sources' results alone, whatever order they ran in.
C18_BucketsSortedStable ==
    Aggregated =>
        \A b \in Buckets :
            LET B == response.explanations[b]
            IN /\ {B[i] : i \in DOMAIN B} = EmittedFor(b)
               /\ Len(B) = Cardinality(EmittedFor(b))
               /\ BucketOrdered(B)

\* An aggregated result whose negative bucket has a tie between two signals
\* of one source and a tie between a Content and a Technical signal, the
\* Content one first although the Technical source was called first.
C18_Witness ==
    /\ Aggregated
    /\ invoked[2] = "technical" /\ invoked[3] = "content"
    /\ LET B == response.explanations["negative_signals"]
       IN /\ \E i, j \in DOMAIN B :
                /\ i < j
                /\ PointsOf(B[i]) = PointsOf(B[j])
                /\ B[i].module = "Content Analysis"
                /\ B[j].module = "Technical Analysis"
          /\ \E i, j \in DOMAIN B :
                /\ i < j
                /\ PointsOf(B[i]) = PointsOf(B[j])
                /\ B[i].module = "Domain Analysis"
                /\ B[j].module = "Domain Analysis"
          /\ \E i, j \in DOMAIN B : PointsOf(B[i]) > PointsOf(B[j])


-----------------------------------------------------------------------------
(* C19 *)

\* The source the method has but cannot run: the visual source of
\* analyze_url_with_visual on a detector without a visual analyzer.
Unavailable ==
    IF entry = "analyze_url_with_visual" /\ ~visual_analyzer THEN {"visual"} ELSE {}

\* The places of the response's explanations that carry source s's module
\* name.
Mentions(s) ==
    {p \in Buckets \X (1..16) :
        /\ p[2] \in DOMAIN response.explanations[p[1]]
        /\ response.explanations[p[1]][p[2]].module = ModuleName[s]}

\* The one explanation of a source that did not deliver: neutral, naming
\* the source as unavailable, with a reason.
NamesUnavailable(s, e) ==
    /\ e.type = "neutral"
    /\ e.description = <<ModuleName[s], " unavailable">>
    /\ "evidence" \in DOMAIN e
    /\ e.evidence # <<>>
    /\ s \in Failed => e.evidence = local_results[s].error

\* C19: in an aggregated result every source that failed or was unavailable
\* has exactly one explanation, in the neutral bucket, naming it unavailable
\* with its failure reason, and has no score.
C19_FailedSourceNamedOnce ==
    Aggregated =>
        \A s \in Failed \cup Unavailable :
            /\ Cardinality(Mentions(s)) = 1
            /\ \A p \in Mentions(s) :
                  /\ p[1] = "neutral_signals"
                  /\ NamesUnavailable(s, response.explanations[p[1]][p[2]])
            /\ "value" \notin DOMAIN response.component_scores[s]


-----------------------------------------------------------------------------
(* C20 *)

\* The sources the call runs.
TotalSources == Len(CallOrder(entry, visual_analyzer))

\* The strong signals of the response: negative with at least 10 points,
\* positive with at least 8.
StrongSignals ==
    LET neg == response.explanations.negative_signals
        pos == response.explanations.positive_signals
    IN Cardinality({i \in DOMAIN neg : PointsOf(neg[i]) >= 10})
       + Cardinality({i \in DOMAIN pos : PointsOf(pos[i]) >= 8})

\* The negative and positive signals of the response.
SignalCount ==
    Len(response.explanations.negative_signals)
    + Len(response.explanations.positive_signals)

\* min(100, breadth + strength + count), truncated: breadth is a multiple of
\* 60/total and the other two are integers, so only breadth is truncated.
ClaimedConfidence(succeeded, total, strong, count) ==
    Min(100, ((60 * succeeded) \div total) + Min(30, 8 * strong) + Min(10, 2 * count))

\* Buckets with the given numbers of strong and weak signals, on and just
\* below the two thresholds.
SignalsWith(sn, wn, sp, wp) ==
    [negative_signals |->
        [i \in 1..(sn + wn) |-> Exp("negative", IF i <= sn THEN 10 ELSE 9, "n")],
     positive_signals |->
        [i \in 1..(sp + wp) |-> Exp("positive", IF i <= sp THEN 8 ELSE 7, "p")],
     neutral_signals |-> <<>>]

\* The confidence of either method is in 0..100 and does not decrease when
\* one more source succeeds or one more signal, strong or weak, negative or
\* positive, is added.
ConfidenceMonotone ==
    \A total \in {3, 4} : \A k \in 0..total :
    \A sn \in 0..3 : \A wn \in 0..3 : \A sp \in 0..3 : \A wp \in 0..3 :
        LET c == CalculateConfidence(SignalsWith(sn, wn, sp, wp), k, total)
        IN /\ c \in 0..100
           /\ c = ClaimedConfidence(k, total, sn + sp, sn + wn + sp + wp)
           /\ k < total =>
                 c <= CalculateConfidence(SignalsWith(sn, wn, sp, wp), k + 1, total)
           /\ c <= CalculateConfidence(SignalsWith(sn + 1, wn, sp, wp), k, total)
           /\ c <= CalculateConfidence(SignalsWith(sn, wn + 1, sp, wp), k, total)
           /\ c <= CalculateConfidence(SignalsWith(sn, wn, sp + 1, wp), k, total)
           /\ c <= CalculateConfidence(SignalsWith(sn, wn, sp, wp + 1), k, total)

\* C20: the confidence of an aggregated result is min(100, breadth +
\* strength + count) truncated to an integer, with breadth 60 x succeeded
\* sources / total sources, strength min(30, 8 x strong signals) and count
\* min(10, 2 x negative and positive signals); it lies in 0..100 and does
\* not decrease with one more succeeded source or one more signal.
C20_ConfidenceFormula ==
    /\ ConfidenceMonotone
    /\ Aggregated =>
          /\ response.confidence =
                ClaimedConfidence(Cardinality(Succeeded), TotalSources,
                                  StrongSignals, SignalCount)
          /\ response.confidence \in 0..100

\* An aggregated result of a call with a failed source where both caps
\* bind: more than three strong signals and more than five signals.
C20_Witness ==
    /\ Aggregated
    /\ Failed # {}
    /\ StrongSignals > 3
    /\ SignalCount > 5
    /\ \E i \in DOMAIN response.explanations.positive_signals :
          PointsOf(response.explanations.positive_signals[i]) \in 8..9
    /\ response.confidence = ((60 * Cardinality(Succeeded)) \div TotalSources) + 40


-----------------------------------------------------------------------------
(* C21 *)

\* C21: an aggregated result with five or more strong signals has a
\* confidence above 85, however many of the sources succeeded.
C21_FiveStrongSignalsAbove85 ==
    Aggregated /\ StrongSignals >= 5 => response.confidence > 85


-----------------------------------------------------------------------------
(* C22 *)

\* analyze_domain is past its call of _detect_typosquatting.
PastTyposquatting == analyzer_pc \in {"homograph", "entropy", "done"}

\* The typosquatting explanations of the results.
TyposquattingExplanations ==
    SelectSeq(results.explanations,
              LAMBDA e : e.description[1] = "Possible typosquatting of ")

\* The similarity of hostname h, lowercased and without a leading 'www.',
\* to the brand lies strictly between 0.85 and 0.995 and h is not the brand.
LooksLike(h, brand) ==
    LET host == TyposquattingSubject(h)
        r == ratio(host, brand)
    IN /\ 85 * r.den < 100 * r.num
       /\ 1000 * r.num < 995 * r.den
       /\ host # brand

\* C22: the typosquatting detector emits a negative explanation naming a
\* brand exactly when the hostname looks like some brand of the fixed set
\* without being it, the brand named is such a brand, and there is at most
\* one such explanation; paypa1.com is reported as typosquatting of
\* paypal.com and paypal.com itself is not reported.
C22_TyposquattingExactlyWhenSimilar ==
    PastTyposquatting =>
        LET found == TyposquattingExplanations
        IN /\ Len(found) <= 1
           /\ Len(found) = 1 <=>
                 \E brand \in major_brands : LooksLike(analyzed_domain, brand)
           /\ \A i \in DOMAIN found :
                 /\ found[i].type = "negative"
                 /\ found[i].description[2] \in major_brands
                 /\ LooksLike(analyzed_domain, found[i].description[2])
           /\ analyzed_domain = <<"p","a","y","p","a","1",".","c","o","m">> =>
                 /\ Len(found) = 1
                 /\ found[1].description[2] = <<"p","a","y","p","a","l",".","c","o","m">>
           /\ analyzed_domain = <<"p","a","y","p","a","l",".","c","o","m">> => found = <<>>

\* The detector has run on www.paypa1.com and has reported it as
\* typosquatting of paypal.com.
C22_Witness ==
    /\ PastTyposquatting
    /\ analyzed_domain = <<"w","w","w",".","p","a","y","p","a","1",".","c","o","m">>
    /\ Len(TyposquattingExplanations) = 1
    /\ TyposquattingExplanations[1].description[2] = <<"p","a","y","p","a","l",".","c","o","m">>
    /\ results.score = -15


-----------------------------------------------------------------------------
(* C23 *)

\* The part of the analyzed hostname before its first dot.
FirstLabel == split_head(analyzed_domain, <<".">>)

\* The explanations of the results with the given description.
ExplanationsTitled(title) ==
    SelectSeq(results.explanations, LAMBDA e : e.description[1] = title)

EntropyExplanations == ExplanationsTitled("Highly randomized domain name detected")

\* C23: once analyze_domain has run its detectors, a hostname whose first
\* label is xk7qz9wj2p has the entropy signal and a hostname whose first
\* label is google has not.
C23_EntropySignalOnRandomLabel ==
    analyzer_pc = "done" =>
        /\ FirstLabel = <<"x","k","7","q","z","9","w","j","2","p">> => Len(EntropyExplanations) = 1
        /\ FirstLabel = <<"g","o","o","g","l","e">> => EntropyExplanations = <<>>

-----------------------------------------------------------------------------
(* C24 *)

HomographExplanations ==
    ExplanationsTitled("Possible homograph attack (Unicode characters)")

\* Some label of the hostname starts with 'xn--'.
HasPunycodeLabel(h) ==
    \/ str_startswith(str_lower(h), <<"x","n","-","-">>)
    \/ str_contains(str_lower(h), <<".","x","n","-","-">>)

\* C24: once the homograph detector has run, the results hold a homograph
\* explanation, a single negative one listing at most five characters,
\* exactly when the hostname has an 'xn--' label or a character above 127.
C24_HomographOnPunycodeOrNonAscii ==
    analyzer_pc \in {"entropy", "done"} =>
        /\ Len(HomographExplanations) <= 1
        /\ Len(HomographExplanations) = 1 <=>
              \/ HasPunycodeLabel(analyzed_domain)
              \/ \E i \in DOMAIN analyzed_domain : NonAscii(analyzed_domain[i])
        /\ \A i \in DOMAIN HomographExplanations :
              /\ HomographExplanations[i].type = "negative"
              /\ Len(HomographExplanations[i].evidence) <= 5

-----------------------------------------------------------------------------
(* C27 *)

RatioExplanations == ExplanationsTitled("Unusual letter distribution in domain")

\* The consonant-to-vowel ratio of the label is above 4.0 or below 0.3; a
\* label with no vowels has a ratio above every bound.
RatioOutOfRange(label) ==
    \/ vowel_count(label) = 0
    \/ consonant_count(label) > 4 * vowel_count(label)
    \/ 10 * consonant_count(label) < 3 * vowel_count(label)

\* C27: once analyze_domain has run its detectors, every hostname whose
\* first label has at least 6 characters and a consonant-to-vowel ratio
\* above 4.0 or below 0.3, labels without vowels included, has the 6-point
\* signal, whether or not it has the entropy signal.
C27_RatioSignalOnUnusualLabel ==
    /\ analyzer_pc = "done"
    /\ str_contains(analyzed_domain, <<".">>)
    /\ Len(FirstLabel) >= 6
    /\ RatioOutOfRange(FirstLabel)
    => /\ Len(RatioExplanations) = 1
       /\ RatioExplanations[1].type = "negative"
       /\ RatioExplanations[1].points = 6


-----------------------------------------------------------------------------
(* C25 *)

\* The sum of the base weights of the succeeded sources, in hundredths.
SucceededBaseWeight == WeightSum([num |-> weights, den |-> WeightDen], Succeeded)

\* C25: in an aggregated result of analyze_url the adjusted weight of every
\* failed source is 0 and that of every succeeded source is its base weight
\* divided by the sum of the base weights of the succeeded sources, which
\* is what analyze_url_with_visual computes for the same results when it
\* has no visual source.
C25_BranchesAgreeWithRenormalization ==
    Aggregated /\ entry = "analyze_url" =>
        LET w == response.weights_used
            general == AdjustedWeightsVisual(
                           [local_results EXCEPT !["visual"] = VisualDefault], FALSE)
        IN \A s \in {"domain", "content", "technical"} :
              /\ s \in Failed => w.num[s] = 0
              /\ s \in Succeeded =>
                    w.num[s] * SucceededBaseWeight = weights[s] * w.den
              /\ w.num[s] * general.den = general.num[s] * w.den

-----------------------------------------------------------------------------
(* C29: normalization of an already normalized domain                       *)

\* C29: _normalize_domain is idempotent on the keys it produced: every key
\* stored in the index normalizes to itself, and so is reported as
\* whitelisted when is_domain_whitelisted is called with that key itself.
C29_NormalizeIdempotentKeysHit ==
    \A key \in whitelist_domains :
        /\ _normalize_domain(key) = key
        /\ is_domain_whitelisted(key, whitelist_domains, company_lookup).hit

-----------------------------------------------------------------------------
(* C30: membership while no force_reload is called                          *)

\* What is_domain_whitelisted would return for the URL u now.
HitNow(u) == is_domain_whitelisted(u, whitelist_domains, company_lookup).hit

\* C30: with no force_reload call, once is_domain_whitelisted has returned
\* true for a URL, a call with the same URL returns true at every later
\* point, during and after the background load.
C30_HitStaysHit ==
    lookup_result.called /\ lookup_result.q.hit => HitNow(lookup_result.url)

\* A call returned true while the entry of company_lookup was still to be
\* written, and the load has since run to its end.
C30_Witness ==
    /\ lookup_result.called
    /\ lookup_result.q.hit
    /\ lookup_result.q.company_name = "Unknown"
    /\ is_loaded
    /\ lookup_result.url \in {Dataset[2].website, HttpScheme \o ACo}
    /\ Cardinality(whitelist_domains) > 1

-----------------------------------------------------------------------------
(* C26, C28: the cache at start-up                                          *)

\* The store is as __init__ left it: no thread has taken a step.
AtStartUp == \A t \in LoaderIds : loader[t].pc \in {"none", "open"}

\* The three conditions of the cache validity rule: the file exists, it is
\* newer than the dataset, and it holds more companies with a website than
\* the threshold.
CacheFileExists == cache.file # "absent"

CompaniesWithWebsite == IF cache.file = "ok" THEN Cardinality(cache.rows) ELSE 0

ClaimedValid ==
    CacheFileExists /\ cache.newer /\ CompaniesWithWebsite > CacheMinRows

\* The index was taken from the cache and no ingestion was started.
LoadedFromCache ==
    /\ is_loaded
    /\ ~loading_in_progress
    /\ \A t \in LoaderIds : loader[t].pc = "none"
    /\ whitelist_domains = CachedDomains(cache)

\* One ingestion thread was started, and the store is not loaded.
IngestionStarted ==
    /\ ~is_loaded
    /\ loading_in_progress
    /\ Cardinality({t \in LoaderIds : loader[t].pc = "open"}) = 1

\* C26 as stated: on every start-up the cache is loaded, with no ingestion
\* started and is_loaded true, exactly when the three conditions hold, and
\* in every other case an ingestion of the corpus is started.
C26_CacheLoadedExactlyWhenValid_AnyStart ==
    AtStartUp => IF ClaimedValid THEN LoadedFromCache ELSE IngestionStarted

\* C26, amended: on a start-up over a dataset file that exists, the cache is
\* loaded, with no ingestion started and is_loaded true, exactly when the
\* three conditions hold, and in every other case, an error of the check
\* included, an ingestion of the corpus is started.
C26_CacheLoadedExactlyWhenValid ==
    AtStartUp /\ corpus.status # "missing" =>
        IF ClaimedValid THEN LoadedFromCache ELSE IngestionStarted

\* A start-up that took the index from a valid cache.
C26_Witness ==
    /\ AtStartUp
    /\ corpus.status = "ok"
    /\ ClaimedValid
    /\ LoadedFromCache
    /\ Cardinality(whitelist_domains) > CacheMinRows

\* The rows an ingestion of the corpus commits when it runs to its end.
CompleteRows == InsertedBy(corpus.lines, Len(corpus.lines))

\* C28: a cache is loaded as the authoritative index, is_loaded set with
\* no ingestion, only if an ingestion that ran to completion wrote it: the
\* rows of an ingestion that was interrupted after a batch commit are never
\* loaded in place of a full ingestion.
C28_OnlyCompleteCacheLoaded ==
    AtStartUp /\ LoadedFromCache => cache.rows = CompleteRows

=============================================================================
